---- MODULE Spec2Model ----
(***************************************************************************)
(* A model of the social-media backend: the messaging repository           *)
(* (src/database.js), the schema migration runner (migrate.js, kept as     *)
(* src/unnamed/part_003) with the five migration files, and the post       *)
(* repository.  Every store command (db.run / db.get / db.all) is one      *)
(* atomic step of the SQLite engine; an async repository method is a       *)
(* sequence of such steps, and the steps of different requests interleave  *)
(* at every await.                                                         *)
(***************************************************************************)
EXTENDS Integers, Sequences, FiniteSets, TLC

\* ------------------------------------------------------------------ bounds
MaxClock == 2       \* readings of new Date() are 1..MaxClock
MaxConvs == 2       \* conversation ids randomUUID() can hand out
MaxMsgs == 2        \* message ids the callers can hand in
MaxFaults == 1      \* store commands that fail (StoreUnavailable) in one run
MaxCrashes == 1     \* times the migrator process is killed
MaxPosts == 2       \* post ids the callers can hand in
MaxExtra == 2       \* posts beyond the page size in the stores a page is read from
MaxStored == 3      \* messages, and their times, in the stores a page of messages is read from
MaxComments == 1    \* comment ids the callers can hand in

Users == {"A", "B"}               \* ids of the rows of the users table
Procs == {"r1", "r2"}             \* requests in flight on the one connection
ConvIds == 1..MaxConvs
MsgIds == 1..MaxMsgs
PostIds == 1..MaxPosts
CommentIds == 1..MaxComments
Null == {}                        \* a nullable column is {} or {value}

VARIABLES
    conversations,   \* table conversations: id -> [type, created_at, last_message_at]
    participants,    \* table conversation_participants: set of <<conversation_id, user_id>>
    messages,        \* table messages: set of [id, conversation_id, sender_id, created_at]
    clock,           \* the wall clock read by new Date()
    req,             \* per request slot: the method running and its locals
    hist,            \* the getOrCreateDirectConversation call that returned last,
                     \* while no other operation has started since
    faults           \* store commands that have failed so far

msgVars == <<conversations, participants, messages, clock, req, hist, faults>>

VARIABLES
    schema,        \* the schema objects of the database file
    ledgerTable,   \* whether table migrations exists
    ledger,        \* names in table migrations, ORDER BY id
    tx,            \* Null, or {the schema at BEGIN TRANSACTION}
    mig,           \* the migrator process: command, position, locals
    dir,           \* the order readdirSync lists the migration files in
    crashes,       \* times the migrator process was killed
    lastOk,        \* the previous command was a migrate() that completed
    crashedMid     \* a migrate() was killed with a migration part-applied

migVars == <<schema, ledgerTable, ledger, tx, mig, dir, crashes, lastOk, crashedMid>>

VARIABLES
    posts,         \* table posts: id -> [user_id, created_at, image_url]
    postSeq,       \* post ids handed out so far
    likes,         \* table likes: set of <<post_id, user_id, created_at>>
    comments,      \* table comments: set of [id, post_id, user_id]
    bookmarks,     \* table bookmarks: set of <<user_id, post_id, created_at>>
    follows,       \* table follows: set of <<follower_id, following_id, created_at>>
    resp           \* the repository call that settled last: its arguments,
                   \* whether it resolved, whether its DELETE found the post,
                   \* whether the edge it names was present, the rows it returned

postVars == <<posts, postSeq, likes, comments, bookmarks, follows, resp>>

VARIABLES
    users,         \* table users: set of [id, email, username, password]
    http           \* per request slot: the route handler of server.js that
                   \* runs in it, its position and its locals

userVars == <<users, http>>

VARIABLES
    uploads        \* the image files of the uploads directory, by name

diskVars == <<uploads>>

\* What the messaging methods, the migrator, the route handlers and the
\* post methods leave alone.
notMsg == <<migVars, postVars, userVars, diskVars>>
notMig == <<conversations, participants, messages, clock, req, hist, postVars,
            userVars, diskVars>>
notApi == <<conversations, participants, messages, req, hist, faults, migVars,
            diskVars>>
notDisk == <<conversations, participants, messages, req, hist, faults, migVars>>
notPost == <<notApi, userVars>>

\* ------------------------------------------------------------ the store
\* The connection is opened without PRAGMA foreign_keys = ON, so SQLite
\* keeps its default: foreign-key clauses (REFERENCES, ON DELETE CASCADE)
\* are parsed and not enforced.
ForeignKeysEnabled == FALSE

ParticipantsOf(c) == {pr[2] : pr \in {x \in participants : x[1] = c}}

\* The SELECT of findDirectConversationBetween: conversations of type
\* 'direct' with a participant row for each argument and exactly 2 rows.
DirectMatches(userId1, userId2) ==
    {c \in DOMAIN conversations :
        /\ conversations[c].type = "direct"
        /\ <<c, userId1>> \in participants
        /\ <<c, userId2>> \in participants
        /\ Cardinality(ParticipantsOf(c)) = 2}

Least(S) == CHOOSE x \in S : \A y \in S : x <= y

\* db.get returns the first row of the result; the engine scans in rowid
\* order, which is insertion order, which is id order here.  null when empty.
\* (findDirectConversationBetween_Group is the query with the wrong type
\* literal, used to test the claims that rest on the lookup.)
findDirectConversationBetween_Group(userId1, userId2) ==
    LET hits == {c \in DOMAIN conversations :
                    /\ conversations[c].type = "group"
                    /\ <<c, userId1>> \in participants
                    /\ <<c, userId2>> \in participants
                    /\ Cardinality(ParticipantsOf(c)) = 2}
    IN IF hits = {} THEN Null ELSE {Least(hits)}

findDirectConversationBetween(userId1, userId2) ==
    IF DirectMatches(userId1, userId2) = {}
    THEN Null
    ELSE {Least(DirectMatches(userId1, userId2))}

\* --------------------------------------------------------- request slots
NoHist == [valid |-> FALSE, u1 |-> "A", u2 |-> "A", id |-> 0,
           created |-> FALSE, solo |-> FALSE, had |-> FALSE]

Idle == [op |-> "idle", pc |-> "idle", u1 |-> "A", u2 |-> "A", id |-> 0,
         conv |-> 0, created |-> FALSE, now |-> 0, solo |-> FALSE,
         had |-> FALSE, prev |-> NoHist, wrote |-> FALSE, lma0 |-> Null]

OthersIdle(p) == \A q \in Procs \ {p} : req[q].op = "idle"

\* A request that starts ends the solitude of every request in flight.
Started(p, r) ==
    [q \in Procs |-> IF q = p THEN r ELSE [req[q] EXCEPT !.solo = FALSE]]

InFlightConvIds == {req[q].id : q \in {x \in Procs : req[x].op = "getOrCreate"}}
InFlightMsgIds == {req[q].id : q \in {x \in Procs : req[x].op = "createMessage"}}
FreeConvIds == ConvIds \ (DOMAIN conversations \cup InFlightConvIds)
FreeMsgIds == MsgIds \ ({m.id : m \in messages} \cup InFlightMsgIds)

\* ---------------------------------------- getOrCreateDirectConversation
\* The call: newId defaults to a fresh randomUUID(); the first command,
\* the SELECT of findDirectConversationBetween, is issued.
GocCall(p, user1, user2) ==
    /\ req[p].op = "idle"
    /\ FreeConvIds # {}
    /\ req' = Started(p, [Idle EXCEPT
                !.op = "getOrCreate", !.pc = "find",
                !.u1 = user1, !.u2 = user2,
                !.id = Least(FreeConvIds),
                !.solo = OthersIdle(p),
                !.had = (\E c \in DOMAIN conversations :
                            /\ conversations[c].type = "direct"
                            /\ ParticipantsOf(c) = {user1, user2}),
                !.prev = IF OthersIdle(p) THEN hist ELSE NoHist])
    /\ hist' = NoHist
    /\ UNCHANGED <<conversations, participants, messages, clock, faults>>
    /\ UNCHANGED notMsg

\* let convId = await findDirectConversationBetween(user1, user2);
\* if (!convId) falls through to the creation branch, else returns.
GocFind(p) ==
    /\ req[p].op = "getOrCreate" /\ req[p].pc = "find"
    /\ LET found == findDirectConversationBetween(req[p].u1, req[p].u2) IN
       req' = [req EXCEPT ![p] =
                  IF found = Null
                  THEN [@ EXCEPT !.pc = "create"]
                  ELSE [@ EXCEPT !.pc = "done", !.created = FALSE,
                                 !.conv = Least(found)]]
    /\ UNCHANGED <<conversations, participants, messages, clock, hist, faults>>
    /\ UNCHANGED notMsg

\* createConversation: INSERT INTO conversations (id, type, name, created_at)
\* with created_at = new Date(); last_message_at is left NULL.  The id is
\* the PRIMARY KEY: the INSERT of a present id fails.
createConversation(id, type) ==
    /\ id \notin DOMAIN conversations
    /\ conversations' = [c \in DOMAIN conversations \cup {id} |->
            IF c = id
            THEN [type |-> type, created_at |-> clock, last_message_at |-> Null]
            ELSE conversations[c]]

\* A call of createConversation by itself (one store command).
CreateConversationCall(type) ==
    /\ FreeConvIds # {}
    /\ createConversation(Least(FreeConvIds), type)
    /\ hist' = NoHist
    /\ UNCHANGED <<participants, messages, clock, req, faults>>
    /\ UNCHANGED notMsg

\* await createConversation(newId, 'direct');
GocCreate(p) ==
    /\ req[p].op = "getOrCreate" /\ req[p].pc = "create"
    /\ createConversation(req[p].id, "direct")
    /\ req' = [req EXCEPT ![p].pc = "add1", ![p].wrote = TRUE]
    /\ UNCHANGED <<participants, messages, clock, hist, faults>>
    /\ UNCHANGED notMsg

\* addParticipant: INSERT OR IGNORE INTO conversation_participants.
addParticipant(conversationId, userId) ==
    participants' = participants \cup {<<conversationId, userId>>}

\* await addParticipant(newId, user1);
GocAdd1(p) ==
    /\ req[p].op = "getOrCreate" /\ req[p].pc = "add1"
    /\ addParticipant(req[p].id, req[p].u1)
    /\ req' = [req EXCEPT ![p].pc = "add2", ![p].wrote = TRUE]
    /\ UNCHANGED <<conversations, messages, clock, hist, faults>>
    /\ UNCHANGED notMsg

\* await addParticipant(newId, user2); convId = newId; created = true; return
GocAdd2(p) ==
    /\ req[p].op = "getOrCreate" /\ req[p].pc = "add2"
    /\ addParticipant(req[p].id, req[p].u2)
    /\ req' = [req EXCEPT ![p].pc = "done", ![p].conv = req[p].id,
                          ![p].created = TRUE, ![p].wrote = TRUE]
    /\ UNCHANGED <<conversations, messages, clock, hist, faults>>
    /\ UNCHANGED notMsg

\* ------------------------------------------------------- createMessage
\* const now = new Date().toISOString(); the INSERT is issued.
MsgCall(p, conversationId, senderId) ==
    /\ req[p].op = "idle"
    /\ FreeMsgIds # {}
    /\ conversationId \in DOMAIN conversations
    /\ req' = Started(p, [Idle EXCEPT
                !.op = "createMessage", !.pc = "insert",
                !.u1 = senderId, !.id = Least(FreeMsgIds),
                !.conv = conversationId, !.now = clock,
                !.solo = OthersIdle(p),
                !.lma0 = conversations[conversationId].last_message_at])
    /\ hist' = NoHist
    /\ UNCHANGED <<conversations, participants, messages, clock, faults>>
    /\ UNCHANGED notMsg

\* INSERT INTO messages (id, conversation_id, sender_id, content, created_at)
MsgInsert(p) ==
    /\ req[p].op = "createMessage" /\ req[p].pc = "insert"
    /\ messages' = messages \cup
            {[id |-> req[p].id, conversation_id |-> req[p].conv,
              sender_id |-> req[p].u1, created_at |-> req[p].now]}
    /\ req' = [req EXCEPT ![p].pc = "update", ![p].wrote = TRUE]
    /\ UNCHANGED <<conversations, participants, clock, hist, faults>>
    /\ UNCHANGED notMsg

\* UPDATE conversations SET last_message_at = now WHERE id = conversationId
MsgUpdate(p) ==
    /\ req[p].op = "createMessage" /\ req[p].pc = "update"
    /\ conversations' = [c \in DOMAIN conversations |->
            IF c = req[p].conv
            THEN [conversations[c] EXCEPT !.last_message_at = {req[p].now}]
            ELSE conversations[c]]
    /\ req' = [req EXCEPT ![p].pc = "readback", ![p].wrote = TRUE]
    /\ UNCHANGED <<participants, messages, clock, hist, faults>>
    /\ UNCHANGED notMsg

\* SELECT m.*, u.username FROM messages m JOIN users u ... WHERE m.id = ?
\* then(row => ({id: row.id, ...})): an absent row throws a TypeError.
MsgReadback(p) ==
    /\ req[p].op = "createMessage" /\ req[p].pc = "readback"
    /\ LET row == {m \in messages : m.id = req[p].id /\ m.sender_id \in Users} IN
       req' = [req EXCEPT ![p].pc = IF row = {} THEN "failed" ELSE "done"]
    /\ UNCHANGED <<conversations, participants, messages, clock, hist, faults>>
    /\ UNCHANGED notMsg

\* ------------------------------------------------ failure and completion
CommandSteps == {"find", "create", "add1", "add2", "insert", "update", "readback"}

\* The store command the request waits for fails (err in the callback):
\* it has no effect, the helper rejects and the async method throws.
CommandFails(p) ==
    /\ req[p].pc \in CommandSteps
    /\ faults < MaxFaults
    /\ faults' = faults + 1
    /\ req' = [req EXCEPT ![p].pc = "failed"]
    /\ UNCHANGED <<conversations, participants, messages, clock, hist>>
    /\ UNCHANGED notMsg

\* The caller receives the result or the failure; the slot is free again.
Settle(p) ==
    /\ req[p].pc \in {"done", "failed"}
    /\ hist' = IF /\ req[p].op = "getOrCreate"
                  /\ req[p].pc = "done"
                  /\ OthersIdle(p)
               THEN [valid |-> TRUE, u1 |-> req[p].u1, u2 |-> req[p].u2,
                     id |-> req[p].conv, created |-> req[p].created,
                     solo |-> req[p].solo, had |-> req[p].had]
               ELSE NoHist
    /\ req' = [req EXCEPT ![p] = Idle]
    /\ UNCHANGED <<conversations, participants, messages, clock, faults>>
    /\ UNCHANGED notMsg

Tick ==
    /\ clock < MaxClock
    /\ clock' = clock + 1
    /\ UNCHANGED <<conversations, participants, messages, req, hist, faults>>
    /\ UNCHANGED notMsg

\* ============================================== schema migration runner
\* The schema is a set of objects; a column or an index belongs to table t.
Table(n) == [k |-> "table", n |-> n, t |-> n]
Column(n, t) == [k |-> "column", n |-> n, t |-> t]
Index(n, t) == [k |-> "index", n |-> n, t |-> t]

\* Statements of the migration files.
CreateTableIfNotExists(n) == [k |-> "createTable", n |-> n, t |-> n]
CreateTable(n) == [k |-> "createTableStrict", n |-> n, t |-> n]
CreateIndexIfNotExists(n, t) == [k |-> "createIndex", n |-> n, t |-> t]
TableInfo(t) == [k |-> "tableInfo", n |-> t, t |-> t]
AddColumnUnlessListed(t, n) == [k |-> "addColumnUnlessListed", n |-> n, t |-> t]
AddColumn(t, n) == [k |-> "addColumn", n |-> n, t |-> t]
DropTableIfExists(n) == [k |-> "dropTable", n |-> n, t |-> n]
DropTable(n) == [k |-> "dropTableStrict", n |-> n, t |-> n]
DropIndexIfExists(n) == [k |-> "dropIndex", n |-> n, t |-> n]
InsertSelect(from, into) == [k |-> "copy", n |-> from, t |-> into]
RenameTable(from, to) == [k |-> "rename", n |-> from, t |-> to]
BeginTransaction == [k |-> "begin", n |-> "", t |-> ""]
Commit == [k |-> "commit", n |-> "", t |-> ""]

Up001 ==
    << CreateTableIfNotExists("users"),
       CreateTableIfNotExists("posts"),
       CreateTableIfNotExists("likes"),
       CreateTableIfNotExists("comments"),
       CreateTableIfNotExists("follows"),
       CreateIndexIfNotExists("idx_posts_user_id", "posts"),
       CreateIndexIfNotExists("idx_posts_created_at", "posts"),
       CreateIndexIfNotExists("idx_comments_post_id", "comments"),
       CreateIndexIfNotExists("idx_likes_post_id", "likes"),
       CreateIndexIfNotExists("idx_follows_follower", "follows"),
       CreateIndexIfNotExists("idx_follows_following", "follows") >>

Down001 ==
    << DropTableIfExists("follows"),
       DropTableIfExists("comments"),
       DropTableIfExists("likes"),
       DropTableIfExists("posts"),
       DropTableIfExists("users") >>

Up002 ==
    << TableInfo("posts"),
       AddColumnUnlessListed("posts", "image_url") >>

Down002 ==
    << BeginTransaction,
       CreateTable("posts_backup"),
       InsertSelect("posts", "posts_backup"),
       DropTable("posts"),
       RenameTable("posts_backup", "posts"),
       CreateIndexIfNotExists("idx_posts_user_id", "posts"),
       CreateIndexIfNotExists("idx_posts_created_at", "posts"),
       Commit >>

\* 003 with the columns added without looking at PRAGMA table_info.
Up003_Unguarded ==
    << TableInfo("users"),
       AddColumn("users", "name"),
       AddColumn("users", "bio"),
       AddColumn("users", "link") >>

Up003 ==
    << TableInfo("users"),
       AddColumnUnlessListed("users", "name"),
       AddColumnUnlessListed("users", "bio"),
       AddColumnUnlessListed("users", "link") >>

Down003 ==
    << BeginTransaction,
       CreateTable("users_backup"),
       InsertSelect("users", "users_backup"),
       DropTable("users"),
       RenameTable("users_backup", "users"),
       Commit >>

Up004 ==
    << CreateTableIfNotExists("bookmarks"),
       CreateIndexIfNotExists("idx_bookmarks_user_id", "bookmarks") >>

Down004 ==
    << DropIndexIfExists("idx_bookmarks_user_id"),
       DropTableIfExists("bookmarks") >>

Up005 ==
    << CreateTableIfNotExists("conversations"),
       CreateTableIfNotExists("conversation_participants"),
       CreateTableIfNotExists("messages"),
       CreateIndexIfNotExists("idx_messages_conversation_created", "messages"),
       CreateIndexIfNotExists("idx_conversation_participants_user",
                              "conversation_participants") >>

Down005 ==
    << DropIndexIfExists("idx_conversation_participants_user"),
       DropIndexIfExists("idx_messages_conversation_created"),
       DropTableIfExists("messages"),
       DropTableIfExists("conversation_participants"),
       DropTableIfExists("conversations") >>

\* The .js files of the migrations directory, by their sequence prefix.
MigrationNames == {"001", "002", "003", "004", "005"}

\* require(path.join(MIGRATIONS_DIR, file))
Up(file) ==
    CASE file = "001" -> Up001
      [] file = "002" -> Up002
      [] file = "003" -> Up003
      [] file = "004" -> Up004
      [] file = "005" -> Up005

Down(file) ==
    CASE file = "001" -> Down001
      [] file = "002" -> Down002
      [] file = "003" -> Down003
      [] file = "004" -> Down004
      [] file = "005" -> Down005

\* Array.prototype.sort() compares the names as strings; the names start
\* with a zero-padded sequence number of equal width, which decides.
CodeUnits(file) ==
    CASE file = "001" -> <<0, 0, 1>>
      [] file = "002" -> <<0, 0, 2>>
      [] file = "003" -> <<0, 0, 3>>
      [] file = "004" -> <<0, 0, 4>>
      [] file = "005" -> <<0, 0, 5>>

RECURSIVE LexLeq(_, _)
LexLeq(a, b) ==
    IF a = <<>> THEN TRUE
    ELSE IF b = <<>> THEN FALSE
    ELSE IF Head(a) # Head(b) THEN Head(a) < Head(b)
    ELSE LexLeq(Tail(a), Tail(b))

Range(q) == {q[k] : k \in DOMAIN q}

RECURSIVE SortNames(_)
SortNames(S) ==
    IF S = {} THEN <<>>
    ELSE LET m == CHOOSE x \in S :
                      \A y \in S : LexLeq(CodeUnits(x), CodeUnits(y))
         IN <<m>> \o SortNames(S \ {m})

\* Orders in which fs.readdirSync may list the directory.
DirListings ==
    { <<"001", "002", "003", "004", "005">>,
      <<"004", "002", "005", "001", "003">> }


HasTable(sch, n) == Table(n) \in sch

\* One statement on schema sch, inside transaction state t, with the
\* migration's local `columns` being cols: the outcome of db.run / db.all.
Exec(st, sch, cols, t) ==
    LET ok(newSch) == [ok |-> TRUE, sch |-> newSch, cols |-> cols, tx |-> t]
        error == [ok |-> FALSE, sch |-> sch, cols |-> cols, tx |-> t]
    IN
    CASE st.k = "createTable" -> ok(sch \cup {Table(st.n)})
      [] st.k = "createTableStrict" ->
            IF HasTable(sch, st.n) THEN error ELSE ok(sch \cup {Table(st.n)})
      [] st.k = "createIndex" ->
            IF \E o \in sch : o.k = "index" /\ o.n = st.n THEN ok(sch)
            ELSE IF ~HasTable(sch, st.t) THEN error
            ELSE ok(sch \cup {Index(st.n, st.t)})
      [] st.k = "tableInfo" ->
            [ok |-> TRUE, sch |-> sch, tx |-> t,
             cols |-> {o.n : o \in {x \in sch : x.k = "column" /\ x.t = st.t}}]
      [] st.k = "addColumnUnlessListed" ->
            IF st.n \in cols THEN ok(sch)
            ELSE IF ~HasTable(sch, st.t) \/ Column(st.n, st.t) \in sch THEN error
            ELSE ok(sch \cup {Column(st.n, st.t)})
      [] st.k = "addColumn" ->
            IF ~HasTable(sch, st.t) \/ Column(st.n, st.t) \in sch THEN error
            ELSE ok(sch \cup {Column(st.n, st.t)})
      [] st.k = "dropTable" -> ok({o \in sch : o.t # st.n})
      [] st.k = "dropTableStrict" ->
            IF ~HasTable(sch, st.n) THEN error ELSE ok({o \in sch : o.t # st.n})
      [] st.k = "dropIndex" -> ok({o \in sch : ~(o.k = "index" /\ o.n = st.n)})
      [] st.k = "copy" ->
            IF HasTable(sch, st.n) /\ HasTable(sch, st.t) THEN ok(sch) ELSE error
      [] st.k = "rename" ->
            IF ~HasTable(sch, st.n) \/ HasTable(sch, st.t) THEN error
            ELSE ok({o \in sch : o.t # st.n} \cup
                    {IF o.k = "table" THEN Table(st.t) ELSE [o EXCEPT !.t = st.t] :
                         o \in {x \in sch : x.t = st.n}})
      [] st.k = "begin" ->
            IF t # Null THEN error
            ELSE [ok |-> TRUE, sch |-> sch, cols |-> cols, tx |-> {sch}]
      [] st.k = "commit" ->
            IF t = Null THEN error
            ELSE [ok |-> TRUE, sch |-> sch, cols |-> cols, tx |-> Null]

\* The schema once an open transaction is rolled back (ROLLBACK, or the
\* journal when the connection closes or the process dies).
\* (RolledBack_Kept is a store whose ROLLBACK keeps the statements run.)
RolledBack_Kept(sch, t) == sch

RolledBack(sch, t) == IF t = Null THEN sch ELSE CHOOSE x \in t : TRUE

NoMig == [cmd |-> "none", pc |-> "none", pending |-> <<>>, i |-> 0,
          name |-> "", stmt |-> 0, cols |-> {}, err |-> "none",
          led0 |-> <<>>, sch0 |-> {}, tbl0 |-> FALSE, log |-> <<>>,
          afterOk |-> FALSE, report |-> <<>>]

\* node migrate.js migrate | rollback: new Migrator(), the command starts.
MigStart(command) ==
    /\ mig.cmd = "none"
    /\ mig' = [NoMig EXCEPT !.cmd = command, !.pc = "init",
                            !.led0 = ledger, !.sch0 = schema,
                            !.tbl0 = ledgerTable, !.afterOk = lastOk]
    /\ lastOk' = FALSE
    /\ UNCHANGED <<schema, ledgerTable, ledger, tx, dir, crashes, crashedMid, faults>>
    /\ UNCHANGED notMig

\* initMigrationsTable: CREATE TABLE IF NOT EXISTS migrations
initMigrationsTable ==
    /\ mig.pc = "init"
    /\ ledgerTable' = TRUE
    /\ mig' = [mig EXCEPT !.pc = "completed"]
    /\ UNCHANGED <<schema, ledger, tx, dir, crashes, lastOk, crashedMid, faults>>
    /\ UNCHANGED notMig

\* SELECT name FROM migrations ORDER BY id
getCompletedMigrations_Empty == <<>>

getCompletedMigrations == ledger

\* readdirSync(MIGRATIONS_DIR).filter(endsWith('.js')).sort()
getMigrationFiles_Unsorted == dir

getMigrationFiles == SortNames(Range(dir))

\* files.filter(file => !completed.includes(file))
Pending(files, completed) ==
    SelectSeq(files, LAMBDA f : f \notin Range(completed))

\* migrate(): completed, files and pending are computed; with nothing
\* pending it returns, else the loop enters the first pending migration.
MigratePlan ==
    /\ mig.cmd = "migrate" /\ mig.pc = "completed"
    /\ LET pending == Pending(getMigrationFiles, getCompletedMigrations) IN
       mig' = IF pending = <<>>
              THEN [mig EXCEPT !.pc = "done"]
              ELSE [mig EXCEPT !.pc = "up", !.pending = pending, !.i = 1,
                               !.name = pending[1], !.stmt = 1,
                               !.log = <<[name |-> pending[1], res |-> "running"]>>]
    /\ UNCHANGED <<schema, ledgerTable, ledger, tx, dir, crashes, lastOk, crashedMid, faults>>
    /\ UNCHANGED notMig

SetRes(log, res) == [log EXCEPT ![Len(log)].res = res]

\* await migration.up(this): the next statement of the forward change.
\* A statement the engine rejects makes up() throw: migrate() rethrows.
UpStatement ==
    /\ mig.cmd = "migrate" /\ mig.pc = "up"
    /\ LET r == Exec(Up(mig.name)[mig.stmt], schema, mig.cols, tx) IN
       /\ schema' = r.sch
       /\ tx' = r.tx
       /\ mig' = IF ~r.ok
                 THEN [mig EXCEPT !.pc = "failed", !.err = "schema",
                                  !.log = SetRes(@, "failed")]
                 ELSE IF mig.stmt = Len(Up(mig.name))
                 THEN [mig EXCEPT !.pc = "record", !.cols = r.cols,
                                  !.log = SetRes(@, "ok")]
                 ELSE [mig EXCEPT !.stmt = @ + 1, !.cols = r.cols]
    /\ UNCHANGED <<ledgerTable, ledger, dir, crashes, lastOk, crashedMid, faults>>
    /\ UNCHANGED notMig

\* await this.run('INSERT INTO migrations (name) VALUES (?)', [file]);
\* name is UNIQUE.  Then the loop goes to the next pending migration.
RecordMigration ==
    /\ mig.cmd = "migrate" /\ mig.pc = "record"
    /\ IF ledgerTable /\ mig.name \notin Range(ledger)
       THEN /\ ledger' = Append(ledger, mig.name)
            /\ mig' = IF mig.i = Len(mig.pending)
                      THEN [mig EXCEPT !.pc = "done"]
                      ELSE [mig EXCEPT !.pc = "up", !.i = @ + 1,
                                !.name = mig.pending[mig.i + 1],
                                !.stmt = 1, !.cols = {},
                                !.log = Append(@, [name |-> mig.pending[mig.i + 1],
                                                   res |-> "running"])]
       ELSE /\ ledger' = ledger
            /\ mig' = [mig EXCEPT !.pc = "failed", !.err = "schema"]
    /\ UNCHANGED <<schema, ledgerTable, tx, dir, crashes, lastOk, crashedMid, faults>>
    /\ UNCHANGED notMig

\* const lastMigration = completed[completed.length - 1];
lastMigration_Oldest(completed) == completed[1]

lastMigration(completed) == completed[Len(completed)]

\* rollback(): with nothing completed it returns; else the backward change
\* of lastMigration is entered.
RollbackPlan ==
    /\ mig.cmd = "rollback" /\ mig.pc = "completed"
    /\ LET completed == getCompletedMigrations IN
       mig' = IF Len(completed) = 0
              THEN [mig EXCEPT !.pc = "done"]
              ELSE [mig EXCEPT !.pc = "down", !.name = lastMigration(completed),
                               !.stmt = 1,
                               !.log = <<[name |-> lastMigration(completed),
                                          res |-> "running"]>>]
    /\ UNCHANGED <<schema, ledgerTable, ledger, tx, dir, crashes, lastOk, crashedMid, faults>>
    /\ UNCHANGED notMig

\* Whether statement number k of a backward change is inside its try block
\* (the changes that begin with BEGIN TRANSACTION catch, ROLLBACK, rethrow).
InTry(file, k) == Down(file)[1].k = "begin" /\ k > 1

\* await migration.down(this): the next statement of the backward change.
DownStatement ==
    /\ mig.cmd = "rollback" /\ mig.pc = "down"
    /\ LET r == Exec(Down(mig.name)[mig.stmt], schema, mig.cols, tx) IN
       /\ schema' = r.sch
       /\ tx' = r.tx
       /\ mig' = IF ~r.ok
                 THEN [mig EXCEPT !.pc = IF InTry(mig.name, mig.stmt)
                                         THEN "catch" ELSE "failed",
                                  !.err = "schema", !.log = SetRes(@, "failed")]
                 ELSE IF mig.stmt = Len(Down(mig.name))
                 THEN [mig EXCEPT !.pc = "unrecord", !.log = SetRes(@, "ok")]
                 ELSE [mig EXCEPT !.stmt = @ + 1]
    /\ UNCHANGED <<ledgerTable, ledger, dir, crashes, lastOk, crashedMid, faults>>
    /\ UNCHANGED notMig

\* catch (error) { await db.run('ROLLBACK'); throw error; }
DownCatch ==
    /\ mig.cmd = "rollback" /\ mig.pc = "catch"
    /\ schema' = RolledBack(schema, tx)
    /\ tx' = Null
    /\ mig' = [mig EXCEPT !.pc = "failed"]
    /\ UNCHANGED <<ledgerTable, ledger, dir, crashes, lastOk, crashedMid, faults>>
    /\ UNCHANGED notMig

\* await this.run('DELETE FROM migrations WHERE name = ?', [lastMigration]);
UnrecordMigration ==
    /\ mig.cmd = "rollback" /\ mig.pc = "unrecord"
    /\ ledger' = SelectSeq(ledger, LAMBDA f : f # mig.name)
    /\ mig' = [mig EXCEPT !.pc = "done"]
    /\ UNCHANGED <<schema, ledgerTable, tx, dir, crashes, lastOk, crashedMid, faults>>
    /\ UNCHANGED notMig

\* status(): const status = completed.includes(file) ? '✓' : '○'
\* (Mark_Pending prints every file as pending.)
Mark_Pending(file, completed) == "pending"

Mark(file, completed) ==
    IF file \in Range(completed) THEN "applied" ELSE "pending"

\* status(): one line per file, then Total: files.length | Completed:
\* completed.length | Pending: files.length - completed.length
StatusReport ==
    /\ mig.cmd = "status" /\ mig.pc = "completed"
    /\ LET completed == getCompletedMigrations
           files == getMigrationFiles
       IN mig' = [mig EXCEPT
                    !.pc = "done",
                    !.log = [i \in DOMAIN files |->
                                [name |-> files[i], res |-> Mark(files[i], completed)]],
                    !.report = <<Len(files), Len(completed),
                                 Len(files) - Len(completed)>>]
    /\ UNCHANGED <<schema, ledgerTable, ledger, tx, dir, crashes, lastOk, crashedMid, faults>>
    /\ UNCHANGED notMig

MigCommandSteps == {"init", "completed", "up", "record", "down", "catch", "unrecord"}

\* The store command the migrator waits for fails (err in the callback of
\* Migrator.run / all): no effect; the await throws.  Inside the try block
\* of a backward change the catch runs, elsewhere the command rethrows.
MigCommandFails ==
    /\ mig.pc \in MigCommandSteps
    /\ faults < MaxFaults
    /\ faults' = faults + 1
    /\ mig' = [mig EXCEPT
                 !.pc = IF mig.pc = "down" /\ InTry(mig.name, mig.stmt)
                        THEN "catch" ELSE "failed",
                 !.err = "store",
                 !.log = IF mig.pc \in {"up", "down"} THEN SetRes(@, "failed") ELSE @]
    /\ UNCHANGED <<schema, ledgerTable, ledger, tx, dir, crashes, lastOk, crashedMid>>
    /\ UNCHANGED notMig

\* main(): the command returned or threw; finally migrator.close().
\* Closing the connection rolls an open transaction back.
MigExit ==
    /\ mig.pc \in {"done", "failed"}
    /\ lastOk' = (mig.cmd = "migrate" /\ mig.pc = "done")
    /\ schema' = RolledBack(schema, tx)
    /\ tx' = Null
    /\ mig' = NoMig
    /\ UNCHANGED <<ledgerTable, ledger, dir, crashes, crashedMid, faults>>
    /\ UNCHANGED notMig

\* The process is killed between two store commands.  Every statement
\* outside a transaction is already durable; an open transaction is rolled
\* back from the journal when the file is opened next.
MigCrash ==
    /\ mig.cmd # "none"
    /\ crashes < MaxCrashes
    /\ crashes' = crashes + 1
    /\ crashedMid' = (crashedMid \/ (/\ mig.cmd = "migrate"
                                     /\ \/ mig.pc = "record"
                                        \/ mig.pc = "up" /\ mig.stmt > 1))
    /\ schema' = RolledBack(schema, tx)
    /\ tx' = Null
    /\ mig' = NoMig
    /\ lastOk' = FALSE
    /\ UNCHANGED <<ledgerTable, ledger, dir, faults>>
    /\ UNCHANGED notMig

MigInit ==
    /\ schema = {}
    /\ ledgerTable = FALSE
    /\ ledger = <<>>
    /\ tx = Null
    /\ mig = NoMig
    /\ dir \in DirListings
    /\ crashes = 0
    /\ lastOk = FALSE
    /\ crashedMid = FALSE

\* ====================================================== post repository
\* Every method below is one store command, hence one step.
NoResp == [op |-> "none", post |-> 0, user |-> "", target |-> "", ok |-> TRUE,
           found |-> FALSE, had |-> FALSE, rows |-> <<>>, args |-> <<>>]

\* createPost: INSERT INTO posts (id, user_id, content, image_url,
\* created_at, updated_at) with both timestamps new Date().
createPost(id, userId) ==
    /\ id = postSeq + 1
    /\ id \in PostIds
    /\ postSeq' = id
    /\ posts' = [p \in DOMAIN posts \cup {id} |->
                    IF p = id THEN [user_id |-> userId, created_at |-> clock,
                                    image_url |-> Null]
                    ELSE posts[p]]
    /\ resp' = [NoResp EXCEPT !.op = "createPost", !.post = id, !.user = userId]
    /\ UNCHANGED <<likes, comments, bookmarks, follows, clock>>
    /\ UNCHANGED notPost

\* The rows left in a child table once ON DELETE CASCADE has removed the
\* children of the deleted post: all of them stay unless the connection
\* enforces foreign keys.
CascadeFrom(rows, children) ==
    IF ForeignKeysEnabled THEN rows \ children ELSE rows

\* deletePost: DELETE FROM posts WHERE id = ?
deletePost(postId) ==
    /\ posts' = [p \in DOMAIN posts \ {postId} |-> posts[p]]
    /\ likes' = CascadeFrom(likes, {r \in likes : r[1] = postId})
    /\ comments' = CascadeFrom(comments, {r \in comments : r.post_id = postId})
    /\ bookmarks' = CascadeFrom(bookmarks, {r \in bookmarks : r[2] = postId})
    /\ resp' = [NoResp EXCEPT !.op = "deletePost", !.post = postId,
                               !.found = (postId \in DOMAIN posts)]
    /\ UNCHANGED <<postSeq, follows, clock>>
    /\ UNCHANGED notPost

\* Whether an INSERT of a child row of (postId, userId) passes the
\* foreign-key checks of the connection.
ReferencesHold(postId, userId) ==
    ForeignKeysEnabled => (postId \in DOMAIN posts /\ userId \in Users)

\* INSERT OR IGNORE: the row is added unless a row with its PRIMARY KEY
\* is present (clash is the set of rows of the table with that key), and
\* then the statement does nothing and reports no error.
\* (InsertOrIgnore_Replace is INSERT OR REPLACE, which puts the new row,
\* with its new created_at, in the place of the old one.)
InsertOrIgnore_Replace(rows, clash, row) == (rows \ clash) \cup {row}

InsertOrIgnore(rows, clash, row) ==
    IF clash = {} THEN rows \cup {row} ELSE rows

\* The rows of likes with PRIMARY KEY (post_id, user_id).
LikeRows(postId, userId) == {l \in likes : l[1] = postId /\ l[2] = userId}

\* isPostLiked: SELECT * FROM likes WHERE post_id = ? AND user_id = ?; !!row
isPostLiked(postId, userId) == LikeRows(postId, userId) # {}

\* likePost: INSERT OR IGNORE INTO likes (post_id, user_id); created_at
\* takes its DEFAULT CURRENT_TIMESTAMP.
likePost(postId, userId) ==
    /\ likes' = IF ReferencesHold(postId, userId)
                THEN InsertOrIgnore(likes, LikeRows(postId, userId),
                                    <<postId, userId, clock>>)
                ELSE likes
    /\ resp' = [NoResp EXCEPT !.op = "likePost", !.post = postId,
                               !.user = userId,
                               !.had = isPostLiked(postId, userId),
                               !.ok = ReferencesHold(postId, userId)]
    /\ UNCHANGED <<posts, postSeq, comments, bookmarks, follows, clock>>
    /\ UNCHANGED notPost

\* unlikePost: DELETE FROM likes WHERE post_id = ? AND user_id = ?
unlikePost(postId, userId) ==
    /\ likes' = likes \ LikeRows(postId, userId)
    /\ resp' = [NoResp EXCEPT !.op = "unlikePost", !.post = postId,
                               !.user = userId,
                               !.had = isPostLiked(postId, userId)]
    /\ UNCHANGED <<posts, postSeq, comments, bookmarks, follows, clock>>
    /\ UNCHANGED notPost

\* addComment: INSERT INTO comments (id, post_id, user_id, content, created_at)
addComment(id, postId, userId) ==
    /\ id \in CommentIds \ {c.id : c \in comments}
    /\ \A c \in CommentIds \ {x.id : x \in comments} : id <= c
    /\ comments' = IF ReferencesHold(postId, userId)
                   THEN comments \cup {[id |-> id, post_id |-> postId,
                                        user_id |-> userId]}
                   ELSE comments
    /\ resp' = [NoResp EXCEPT !.op = "addComment", !.post = postId,
                               !.user = userId,
                               !.ok = ReferencesHold(postId, userId)]
    /\ UNCHANGED <<posts, postSeq, likes, bookmarks, follows, clock>>
    /\ UNCHANGED notPost

\* The rows of bookmarks with PRIMARY KEY (user_id, post_id).
BookmarkRows(postId, userId) ==
    {b \in bookmarks : b[1] = userId /\ b[2] = postId}

\* isPostBookmarked: SELECT * FROM bookmarks WHERE post_id = ? AND user_id = ?
isPostBookmarked(postId, userId) == BookmarkRows(postId, userId) # {}

\* bookmarkPost: INSERT OR IGNORE INTO bookmarks (post_id, user_id)
bookmarkPost(postId, userId) ==
    /\ bookmarks' = IF ReferencesHold(postId, userId)
                    THEN InsertOrIgnore(bookmarks, BookmarkRows(postId, userId),
                                        <<userId, postId, clock>>)
                    ELSE bookmarks
    /\ resp' = [NoResp EXCEPT !.op = "bookmarkPost", !.post = postId,
                               !.user = userId,
                               !.had = isPostBookmarked(postId, userId),
                               !.ok = ReferencesHold(postId, userId)]
    /\ UNCHANGED <<posts, postSeq, likes, comments, follows, clock>>
    /\ UNCHANGED notPost

\* unbookmarkPost: DELETE FROM bookmarks WHERE post_id = ? AND user_id = ?
\* (unbookmarkPost_AnyUser is the DELETE with the user_id condition lost.)
unbookmarkPost_AnyUser(postId, userId) ==
    /\ bookmarks' = {b \in bookmarks : b[2] # postId}
    /\ resp' = [NoResp EXCEPT !.op = "unbookmarkPost", !.post = postId,
                               !.user = userId,
                               !.had = isPostBookmarked(postId, userId)]
    /\ UNCHANGED <<posts, postSeq, likes, comments, follows, clock>>
    /\ UNCHANGED notPost

unbookmarkPost(postId, userId) ==
    /\ bookmarks' = bookmarks \ BookmarkRows(postId, userId)
    /\ resp' = [NoResp EXCEPT !.op = "unbookmarkPost", !.post = postId,
                               !.user = userId,
                               !.had = isPostBookmarked(postId, userId)]
    /\ UNCHANGED <<posts, postSeq, likes, comments, follows, clock>>
    /\ UNCHANGED notPost

\* The rows of follows with PRIMARY KEY (follower_id, following_id).
FollowRows(followerId, followingId) ==
    {f \in follows : f[1] = followerId /\ f[2] = followingId}

\* isFollowing: SELECT * FROM follows WHERE follower_id = ? AND following_id = ?
isFollowing(followerId, followingId) == FollowRows(followerId, followingId) # {}

\* The INSERT and the DELETE of the follows table.
InsertFollow(followerId, followingId) ==
    InsertOrIgnore(follows, FollowRows(followerId, followingId),
                   <<followerId, followingId, clock>>)

DeleteFollow(followerId, followingId) ==
    follows \ FollowRows(followerId, followingId)

\* followUser: INSERT OR IGNORE INTO follows (follower_id, following_id)
followUser(followerId, followingId) ==
    /\ follows' = InsertFollow(followerId, followingId)
    /\ resp' = [NoResp EXCEPT !.op = "followUser", !.user = followerId,
                               !.target = followingId,
                               !.had = isFollowing(followerId, followingId)]
    /\ UNCHANGED <<posts, postSeq, likes, comments, bookmarks, clock>>
    /\ UNCHANGED notPost

\* unfollowUser: DELETE FROM follows WHERE follower_id = ? AND following_id = ?
unfollowUser(followerId, followingId) ==
    /\ follows' = DeleteFollow(followerId, followingId)
    /\ resp' = [NoResp EXCEPT !.op = "unfollowUser", !.user = followerId,
                               !.target = followingId,
                               !.had = isFollowing(followerId, followingId)]
    /\ UNCHANGED <<posts, postSeq, likes, comments, bookmarks, clock>>
    /\ UNCHANGED notPost

\* ------------------------------------------------------ enriched views
\* The ids of the rows of users: JOIN users u ON p.user_id = u.id keeps
\* the posts whose author has a row.
UserIds == {u.id : u \in users}

\* The characters of an id.  Ids are made by crypto.randomUUID(): they are
\* not empty and hold no comma.
IdChars(id) ==
    CASE id = "A" -> <<"A">>
      [] id = "B" -> <<"B">>
      [] id = "C" -> <<"C">>
      [] id = "D" -> <<"D">>
      [] id = "Z" -> <<"Z">>

\* The order in which the engine yields rows that no ORDER BY tells apart:
\* unspecified; two scans are modelled, one the reverse of the other.
TieOrders == {"forward", "backward"}

RECURSIVE Listing(_)
Listing(S) ==
    IF S = {} THEN <<>>
    ELSE LET x == CHOOSE y \in S : TRUE IN <<x>> \o Listing(S \ {x})

Reverse(q) == [i \in 1..Len(q) |-> q[Len(q) + 1 - i]]

Scan(S, tie) == IF tie = "forward" THEN Listing(S) ELSE Reverse(Listing(S))

\* GROUP_CONCAT(DISTINCT l.user_id): NULL for a group with no likes row,
\* else the distinct values joined with ",".
RECURSIVE Join(_)
Join(texts) ==
    IF texts = <<>> THEN <<>>
    ELSE IF Len(texts) = 1 THEN texts[1]
    ELSE texts[1] \o <<",">> \o Join(Tail(texts))

GroupConcatDistinct(values, tie) ==
    IF values = {} THEN Null
    ELSE {Join([i \in 1..Cardinality(values) |-> IdChars(Scan(values, tie)[i])])}

\* String.prototype.split(','): the pieces between the commas.
RECURSIVE Split(_)
Split(text) ==
    IF \A i \in 1..Len(text) : text[i] # ","
    THEN <<text>>
    ELSE LET k == CHOOSE i \in 1..Len(text) :
                      text[i] = "," /\ \A j \in 1..(i - 1) : text[j] # ","
         IN <<SubSeq(text, 1, k - 1)>> \o Split(SubSeq(text, k + 1, Len(text)))

\* likes: row.likes ? row.likes.split(',') : []  (null and '' are falsy)
\* (LikesField_Unsplit is the mapping that leaves the text in one piece.)
LikesField_Unsplit(concat) ==
    IF concat = Null \/ concat = {<<>>}
    THEN <<>>
    ELSE <<CHOOSE t \in concat : TRUE>>

LikesField(concat) ==
    IF concat = Null \/ concat = {<<>>}
    THEN <<>>
    ELSE Split(CHOOSE t \in concat : TRUE)

\* getPostComments: the comments of the post whose author has a users row,
\* oldest first (comment ids are handed out in time order).
RECURSIVE Ascending(_)
Ascending(S) ==
    IF S = {} THEN <<>>
    ELSE LET m == CHOOSE x \in S : \A y \in S : x <= y
         IN <<m>> \o Ascending(S \ {m})

getPostComments(postId) ==
    Ascending({c.id : c \in {x \in comments :
                                x.post_id = postId /\ x.user_id \in UserIds}})

\* The row mapping shared by the four views.
Enriched(postId, tie) ==
    [id |-> postId,
     userId |-> posts[postId].user_id,
     likes |-> LikesField(GroupConcatDistinct(
                    {l[2] : l \in {x \in likes : x[1] = postId}}, tie)),
     comments |-> getPostComments(postId),
     createdAt |-> posts[postId].created_at]

\* ORDER BY key DESC over the posts of S, key[p] being the sort key of p:
\* the greatest key first, the posts of one key in the order of the scan.
RECURSIVE DescendingKeys(_)
DescendingKeys(K) ==
    IF K = {} THEN <<>>
    ELSE LET m == CHOOSE x \in K : \A y \in K : y <= x
         IN <<m>> \o DescendingKeys(K \ {m})

RowScan(last, tie) ==
    IF tie = "forward" THEN [i \in 1..last |-> i]
    ELSE [i \in 1..last |-> last + 1 - i]

OrderByDesc(S, key, tie) ==
    LET keys == DescendingKeys({key[p] : p \in S})
        last == IF S = {} THEN 0 ELSE CHOOSE x \in S : \A y \in S : y <= x
        Tied(k) == LET Has(p) == p \in S /\ key[p] = k
                   IN SelectSeq(RowScan(last, tie), Has)
        RECURSIVE From(_)
        From(i) == IF i > Len(keys) THEN <<>>
                   ELSE Tied(keys[i]) \o From(i + 1)
    IN From(1)

Limit(rows, n) == SubSeq(rows, 1, IF Len(rows) < n THEN Len(rows) ELSE n)

PostCreatedAt == [p \in DOMAIN posts |-> posts[p].created_at]

FeedLimit == 50

\* getFeedPosts: WHERE p.user_id IN (SELECT following_id FROM follows WHERE
\* follower_id = ?) OR p.user_id = ?  ...  ORDER BY p.created_at DESC LIMIT 50
Followees(userId) == {f[2] : f \in {g \in follows : g[1] = userId}}

FeedRows(userId) ==
    {p \in DOMAIN posts :
        /\ posts[p].user_id \in UserIds
        /\ posts[p].user_id \in Followees(userId) \cup {userId}}

\* (FeedOrder_Oldest is the query with ORDER BY p.created_at ASC.)
FeedOrder_Oldest(userId, tie) ==
    Reverse(OrderByDesc(FeedRows(userId), PostCreatedAt, tie))

FeedOrder(userId, tie) == OrderByDesc(FeedRows(userId), PostCreatedAt, tie)

getFeedPosts(userId, tie) ==
    LET page == Limit(FeedOrder(userId, tie), FeedLimit)
    IN [i \in 1..Len(page) |-> Enriched(page[i], tie)]

\* getExplorePosts: WHERE p.user_id != ? AND p.user_id NOT IN (SELECT
\* following_id ...)  ...  ORDER BY RANDOM() LIMIT 50
\* (ExploreRows_NotOwn is the query without the NOT IN condition.)
ExploreRows_NotOwn(userId) ==
    {p \in DOMAIN posts :
        posts[p].user_id \in UserIds /\ posts[p].user_id # userId}

ExploreRows(userId) ==
    {p \in DOMAIN posts :
        /\ posts[p].user_id \in UserIds
        /\ posts[p].user_id # userId
        /\ posts[p].user_id \notin Followees(userId)}

\* The orders RANDOM() can put the posts of S in.
Orders(S) ==
    {q \in [1..Cardinality(S) -> S] : \A p \in S : \E i \in DOMAIN q : q[i] = p}

\* Every result the query can give: any FeedLimit of the rows, in any order.
getExplorePosts(userId) ==
    LET n == IF Cardinality(ExploreRows(userId)) < FeedLimit
             THEN Cardinality(ExploreRows(userId)) ELSE FeedLimit
        picks == {S \in SUBSET ExploreRows(userId) : Cardinality(S) = n}
    IN UNION {{[i \in DOMAIN q |-> Enriched(q[i], tie)] : q \in Orders(S)} :
                    S \in picks, tie \in TieOrders}

\* getUserPosts: WHERE p.user_id = ?  ...  ORDER BY p.created_at DESC
getUserPosts(userId, tie) ==
    LET rows == OrderByDesc({p \in DOMAIN posts :
                                posts[p].user_id \in UserIds
                                /\ posts[p].user_id = userId},
                            PostCreatedAt, tie)
    IN [i \in 1..Len(rows) |-> Enriched(rows[i], tie)]

\* getBookmarkedPosts: JOIN bookmarks b ON p.id = b.post_id WHERE
\* b.user_id = ?  ...  ORDER BY b.created_at DESC
BookmarkedRows(userId) ==
    {p \in DOMAIN posts :
        posts[p].user_id \in UserIds /\ isPostBookmarked(p, userId)}

BookmarkedAt(userId) ==
    [p \in BookmarkedRows(userId) |->
        (CHOOSE b \in BookmarkRows(p, userId) : TRUE)[3]]

getBookmarkedPosts(userId, tie) ==
    LET rows == OrderByDesc(BookmarkedRows(userId), BookmarkedAt(userId), tie)
    IN [i \in 1..Len(rows) |-> Enriched(rows[i], tie)]

\* The calls of the views: the result is handed to the caller.
GetFeedPosts(userId, tie) ==
    /\ resp' = [NoResp EXCEPT !.op = "getFeedPosts", !.user = userId,
                               !.rows = getFeedPosts(userId, tie)]
    /\ UNCHANGED <<posts, postSeq, likes, comments, bookmarks, follows, clock>>
    /\ UNCHANGED notPost

GetExplorePosts(userId) ==
    /\ \E rows \in getExplorePosts(userId) :
            resp' = [NoResp EXCEPT !.op = "getExplorePosts", !.user = userId,
                                   !.rows = rows]
    /\ UNCHANGED <<posts, postSeq, likes, comments, bookmarks, follows, clock>>
    /\ UNCHANGED notPost

GetUserPosts(userId, tie) ==
    /\ resp' = [NoResp EXCEPT !.op = "getUserPosts", !.user = userId,
                               !.rows = getUserPosts(userId, tie)]
    /\ UNCHANGED <<posts, postSeq, likes, comments, bookmarks, follows, clock>>
    /\ UNCHANGED notPost

GetBookmarkedPosts(userId, tie) ==
    /\ resp' = [NoResp EXCEPT !.op = "getBookmarkedPosts", !.user = userId,
                               !.rows = getBookmarkedPosts(userId, tie)]
    /\ UNCHANGED <<posts, postSeq, likes, comments, bookmarks, follows, clock>>
    /\ UNCHANGED notPost

\* ------------------------------------------------- messaging views
DefaultLimit == 50

\* getConversationMessages, the rows of the SELECT: the messages of the
\* conversation whose sender has a users row, those before `before` when
\* it is given (if (before)), ORDER BY m.created_at DESC LIMIT ?, each
\* mapped to the object handed out.  limit and before are {} when the
\* caller leaves them out, {value} otherwise.
MessageRows(conversationId, limit, before, tie) ==
    LET matching == {m \in messages :
                        /\ m.conversation_id = conversationId
                        /\ m.sender_id \in UserIds
                        /\ before # Null =>
                                m.created_at < (CHOOSE t \in before : TRUE)}
        ids == {m.id : m \in matching}
        at == [i \in ids |-> (CHOOSE m \in matching : m.id = i).created_at]
        n == IF limit = Null THEN DefaultLimit ELSE CHOOSE k \in limit : TRUE
        page == Limit(OrderByDesc(ids, at, tie), n)
    IN [i \in 1..Len(page) |->
            LET r == CHOOSE m \in matching : m.id = page[i]
            IN [id |-> r.id, conversationId |-> r.conversation_id,
                senderId |-> r.sender_id, createdAt |-> r.created_at]]

\* rows.reverse().map(...)
\* (getConversationMessages_NewestFirst is the method without reverse().)
getConversationMessages_NewestFirst(conversationId, limit, before, tie) ==
    MessageRows(conversationId, limit, before, tie)

getConversationMessages(conversationId, limit, before, tie) ==
    Reverse(MessageRows(conversationId, limit, before, tie))

GetConversationMessages(conversationId, limit, before, tie) ==
    /\ resp' = [NoResp EXCEPT
                    !.op = "getConversationMessages",
                    !.args = <<conversationId, limit, before>>,
                    !.rows = getConversationMessages(conversationId, limit,
                                                     before, tie)]
    /\ UNCHANGED <<posts, postSeq, likes, comments, bookmarks, follows, clock>>
    /\ UNCHANGED notPost

\* addParticipant called by itself (one store command).
AddParticipantCall(conversationId, userId) ==
    /\ addParticipant(conversationId, userId)
    /\ UNCHANGED <<conversations, messages, clock, req, hist, faults>>
    /\ UNCHANGED notMsg

\* getConversationParticipants: the users with a participant row, in the
\* order of the scan.
getConversationParticipants(conversationId, tie) ==
    Scan({u \in UserIds : <<conversationId, u>> \in participants}, tie)

\* getLastMessage: ORDER BY m.created_at DESC LIMIT 1, null without a row.
\* (getLastMessage_Oldest is the query with ORDER BY m.created_at ASC.)
getLastMessage_Oldest(conversationId, tie) ==
    LET rows == Reverse(MessageRows(conversationId, Null, Null, tie))
    IN IF rows = <<>> THEN Null ELSE {rows[1]}

getLastMessage(conversationId, tie) ==
    LET rows == MessageRows(conversationId, {1}, Null, tie)
    IN IF rows = <<>> THEN Null ELSE {rows[1]}

\* getConversation: null when the conversation has no row.
getConversation(conversationId, tie) ==
    IF conversationId \notin DOMAIN conversations
    THEN Null
    ELSE {[id |-> conversationId,
           type |-> conversations[conversationId].type,
           participants |-> getConversationParticipants(conversationId, tie),
           lastMessage |-> getLastMessage(conversationId, tie),
           createdAt |-> conversations[conversationId].created_at,
           lastMessageAt |-> conversations[conversationId].last_message_at]}

\* COALESCE(c.last_message_at, c.created_at)
Coalesce(first, second) ==
    IF first # Null THEN CHOOSE t \in first : TRUE ELSE second

\* getUserConversations: the conversations joined to a participant row of
\* the user, GROUP BY c.id, ORDER BY COALESCE(...) DESC, each mapped by
\* getConversation.
getUserConversations(userId, tie) ==
    LET joined == {c \in DOMAIN conversations : <<c, userId>> \in participants}
        key == [c \in joined |-> Coalesce(conversations[c].last_message_at,
                                          conversations[c].created_at)]
        rows == OrderByDesc(joined, key, tie)
    IN [i \in 1..Len(rows) |-> getConversation(rows[i], tie)]

GetUserConversations(userId, tie) ==
    /\ resp' = [NoResp EXCEPT !.op = "getUserConversations", !.user = userId,
                               !.rows = getUserConversations(userId, tie)]
    /\ UNCHANGED <<posts, postSeq, likes, comments, bookmarks, follows, clock>>
    /\ UNCHANGED notPost

PostTick ==
    /\ clock < MaxClock
    /\ clock' = clock + 1
    /\ UNCHANGED <<posts, postSeq, likes, comments, bookmarks, follows, resp>>
    /\ UNCHANGED notPost

PostInit ==
    /\ posts = <<>>
    /\ postSeq = 0
    /\ likes = {}
    /\ comments = {}
    /\ bookmarks = {}
    /\ follows = {}
    /\ resp = NoResp

\* ========================================================= route handlers
\* The handlers of server.js that decide who may follow whom and which
\* accounts exist.  A handler is a sequence of repository calls; the calls
\* of the requests in flight interleave at every await.

\* The accounts: the two users every part of the model speaks of, signed
\* up before the first step.
SeedUsers ==
    { [id |-> "A", email |-> "a@x", username |-> "a", password |-> "$2a$10$"],
      [id |-> "B", email |-> "b@x", username |-> "b", password |-> "$2a$10$"] }

FreshUserIds == {"C", "D"}               \* ids uuidv4() hands out at signup
EmailInputs == {"a@x", "c@x"}            \* req.body.email
UsernameInputs == {"", "a", "c"}         \* req.body.username
TargetIds == Users \cup {"Z"}            \* req.params.userId: any string

NoRequest == [route |-> "none", pc |-> "idle", caller |-> "", target |-> "",
              email |-> "", username |-> "", flag |-> FALSE, status |-> 0,
              err |-> "", rows |-> <<>>, left |-> {}, post |-> 0]

\* A slot takes a new request once the response of the last one is sent.
SlotFree(p) == http[p].pc \in {"idle", "done"}

Answer(p, status) ==
    http' = [http EXCEPT ![p].pc = "done", ![p].status = status]

\* ---------------------------------------- POST /api/users/:userId/follow
\* if (targetUserId === currentUserId) return res.status(400)
\* (SelfFollow_Never is the handler without that guard.)
SelfFollow_Never(targetUserId, currentUserId) == FALSE

SelfFollow(targetUserId, currentUserId) == targetUserId = currentUserId

\* The request of an authenticated user: the guard, then the isFollowing
\* SELECT is issued.
FollowRequest(p, currentUserId, targetUserId) ==
    /\ SlotFree(p)
    /\ http' = [http EXCEPT ![p] =
            IF SelfFollow(targetUserId, currentUserId)
            THEN [NoRequest EXCEPT !.route = "follow", !.pc = "done",
                                   !.caller = currentUserId,
                                   !.target = targetUserId, !.status = 400]
            ELSE [NoRequest EXCEPT !.route = "follow", !.pc = "isFollowing",
                                   !.caller = currentUserId,
                                   !.target = targetUserId]]
    /\ UNCHANGED <<users, postVars, clock>>
    /\ UNCHANGED notApi

\* const isFollowing = await db.isFollowing(currentUserId, targetUserId);
FollowCheck(p) ==
    /\ http[p].route = "follow" /\ http[p].pc = "isFollowing"
    /\ http' = [http EXCEPT ![p].pc = "toggle",
                            ![p].flag = isFollowing(http[p].caller, http[p].target)]
    /\ UNCHANGED <<users, postVars, clock>>
    /\ UNCHANGED notApi

\* if (isFollowing) await db.unfollowUser(..) else await db.followUser(..);
\* res.json({ following: !isFollowing })
FollowToggle(p) ==
    /\ http[p].route = "follow" /\ http[p].pc = "toggle"
    /\ follows' = IF http[p].flag
                  THEN DeleteFollow(http[p].caller, http[p].target)
                  ELSE InsertFollow(http[p].caller, http[p].target)
    /\ Answer(p, 200)
    /\ UNCHANGED <<users, posts, postSeq, likes, comments, bookmarks, resp, clock>>
    /\ UNCHANGED notApi

\* ------------------------------------------- POST /api/posts/:postId/like
\* The request of an authenticated user: the isPostLiked SELECT is issued.
LikeRequest(p, userId, postId) ==
    /\ SlotFree(p)
    /\ http' = [http EXCEPT ![p] =
            [NoRequest EXCEPT !.route = "like", !.pc = "isPostLiked",
                              !.caller = userId, !.post = postId]]
    /\ UNCHANGED <<users, postVars, clock>>
    /\ UNCHANGED notApi

\* const isLiked = await db.isPostLiked(postId, userId);
LikeCheck(p) ==
    /\ http[p].route = "like" /\ http[p].pc = "isPostLiked"
    /\ http' = [http EXCEPT ![p].pc = "toggle",
                            ![p].flag = isPostLiked(http[p].post, http[p].caller)]
    /\ UNCHANGED <<users, postVars, clock>>
    /\ UNCHANGED notApi

\* if (isLiked) await db.unlikePost(..) else await db.likePost(..);
\* res.json({ liked: !isLiked }); a failed INSERT is answered with 500.
LikeToggle(p) ==
    /\ http[p].route = "like" /\ http[p].pc = "toggle"
    /\ LET postId == http[p].post
           userId == http[p].caller
       IN /\ likes' = IF http[p].flag
                       THEN likes \ LikeRows(postId, userId)
                       ELSE IF ReferencesHold(postId, userId)
                       THEN InsertOrIgnore(likes, LikeRows(postId, userId),
                                           <<postId, userId, clock>>)
                       ELSE likes
          /\ Answer(p, IF http[p].flag \/ ReferencesHold(postId, userId)
                       THEN 200 ELSE 500)
    /\ UNCHANGED <<users, posts, postSeq, comments, bookmarks, follows, resp, clock>>
    /\ UNCHANGED notApi

\* --------------------------------------------------------- POST /api/posts
\* The request with an image: multer has stored the file under a new name
\* (the name is the post's id here), imageUrl is /uploads/<name>, and
\* createPost inserts the row.
CreatePostWithImage(id, userId) ==
    /\ id = postSeq + 1
    /\ id \in PostIds
    /\ postSeq' = id
    /\ uploads' = uploads \cup {id}
    /\ posts' = [p \in DOMAIN posts \cup {id} |->
                    IF p = id THEN [user_id |-> userId, created_at |-> clock,
                                    image_url |-> {id}]
                    ELSE posts[p]]
    /\ UNCHANGED <<users, http, likes, comments, bookmarks, follows, resp, clock>>
    /\ UNCHANGED notDisk

\* ------------------------------------------- DELETE /api/posts/:postId
\* getPost: SELECT * FROM posts WHERE id = ?; null without a row, else the
\* row with its columns renamed.
getPost(postId) ==
    IF postId \notin DOMAIN posts THEN Null
    ELSE {[id |-> postId, userId |-> posts[postId].user_id,
           imageUrl |-> posts[postId].image_url,
           createdAt |-> posts[postId].created_at]}

\* if (post.userId !== req.user.id) return res.status(403)
\* (NotAuthor_Never is the handler without that guard.)
NotAuthor_Never(post, userId) == FALSE

NotAuthor(post, userId) == post.userId # userId

\* The request of an authenticated user: the getPost SELECT is issued.
DeleteRequest(p, userId, postId) ==
    /\ SlotFree(p)
    /\ http' = [http EXCEPT ![p] =
            [NoRequest EXCEPT !.route = "delete", !.pc = "getPost",
                              !.caller = userId, !.post = postId]]
    /\ UNCHANGED <<users, postVars, clock>>
    /\ UNCHANGED notApi

\* getPost has resolved: 404 without a post, 403 for a post of another
\* user; else the image file of post.imageUrl is unlinked if it is there
\* and the DELETE of deletePost is issued.
DeleteGetPost(p) ==
    /\ http[p].route = "delete" /\ http[p].pc = "getPost"
    /\ LET found == getPost(http[p].post) IN
       IF found = Null
       THEN Answer(p, 404) /\ uploads' = uploads
       ELSE LET post == CHOOSE r \in found : TRUE IN
            IF NotAuthor(post, http[p].caller)
            THEN Answer(p, 403) /\ uploads' = uploads
            ELSE /\ http' = [http EXCEPT ![p].pc = "deletePost"]
                 /\ uploads' = uploads \ post.imageUrl
    /\ UNCHANGED <<users, postVars, clock>>
    /\ UNCHANGED notDisk

\* await db.deletePost(req.params.postId); res.json(...)
DeleteRun(p) ==
    /\ http[p].route = "delete" /\ http[p].pc = "deletePost"
    /\ LET postId == http[p].post IN
       /\ posts' = [q \in DOMAIN posts \ {postId} |-> posts[q]]
       /\ likes' = CascadeFrom(likes, {r \in likes : r[1] = postId})
       /\ comments' = CascadeFrom(comments, {r \in comments : r.post_id = postId})
       /\ bookmarks' = CascadeFrom(bookmarks, {r \in bookmarks : r[2] = postId})
    /\ Answer(p, 200)
    /\ UNCHANGED <<users, postSeq, follows, resp, clock>>
    /\ UNCHANGED notApi

\* -------------------------------------------------------- users table
\* getUserByEmail / getUserByUsername: the row, undefined (Null) if none.
getUserByEmail(email) == {u \in users : u.email = email}

getUserByUsername(username) == {u \in users : u.username = username}

\* The rows an INSERT of `row` collides with: id TEXT PRIMARY KEY,
\* email TEXT UNIQUE, username TEXT UNIQUE.
\* (Conflicts_IdOnly is the table with the primary key alone.)
Conflicts_IdOnly(row) == {u \in users : u.id = row.id}

Conflicts(row) ==
    {u \in users : u.id = row.id \/ u.email = row.email
                                 \/ u.username = row.username}

\* createUser: INSERT INTO users; SQLITE_CONSTRAINT and no row on a clash.
createUser(user) == IF Conflicts(user) = {} THEN users \cup {user} ELSE users

\* updateUserProfile: UPDATE users SET username = ? WHERE id = ?; the
\* statement fails when the new row would clash with another row.
UpdateConflicts(userId, username) ==
    {u \in users : u.id = userId} # {}
        /\ Conflicts([id |-> userId, email |-> "", username |-> username])
                \ {u \in users : u.id = userId} # {}

updateUserProfile(userId, username) ==
    IF UpdateConflicts(userId, username)
    THEN users
    ELSE {IF u.id = userId THEN [u EXCEPT !.username = username] ELSE u :
            u \in users}

\* The columns a SELECT lists, of a row.  The columns of users the model
\* keeps are id, email, username and password (the bcrypt hash the signup
\* handler passes to createUser); name, bio, link and created_at are left
\* out of every row.
Select(row, columns) == [c \in columns |-> row[c]]

\* getUserById: SELECT id, email, username, name, bio, link, created_at.
\* (getUserById_AllColumns is the query with SELECT *.)
getUserById_AllColumns(userId) == {u \in users : u.id = userId}

getUserById(userId) ==
    {Select(u, {"id", "email", "username"}) : u \in {x \in users : x.id = userId}}

\* The profile updateUserProfile resolves with: the SELECT after the UPDATE.
updatedProfile(userId, username) ==
    {Select(u, {"id", "email", "username"}) :
        u \in {x \in updateUserProfile(userId, username) : x.id = userId}}

\* username LIKE '%query%': usernames and queries of the model have at most
\* one character, so the pattern matches when the query is empty or is the
\* username.
Like(username, query) == query = "" \/ query = username

\* The followers and following columns of searchUsers, getFollowers and
\* getFollowing: GROUP_CONCAT(DISTINCT ...) over the LEFT JOINs with follows,
\* then split(',').
FollowersOf(userId) == {f[1] : f \in {g \in follows : g[2] = userId}}

FollowColumns(row, tie) ==
    [c \in DOMAIN row \cup {"followers", "following"} |->
        CASE c = "followers" ->
                LikesField(GroupConcatDistinct(FollowersOf(row.id), tie))
          [] c = "following" ->
                LikesField(GroupConcatDistinct(Followees(row.id), tie))
          [] OTHER -> row[c]]

UserRows(S, columns, tie) ==
    LET ids == Scan({u.id : u \in S}, tie)
    IN [i \in DOMAIN ids |->
            FollowColumns(Select(CHOOSE u \in S : u.id = ids[i], columns), tie)]

\* searchUsers: SELECT u.id, u.username, u.email, ... WHERE u.username LIKE ?
\* AND u.id != ? GROUP BY u.id LIMIT 20
SearchLimit == 20

searchUsers(query, currentUserId, tie) ==
    Limit(UserRows({u \in users : Like(u.username, query) /\ u.id # currentUserId},
                   {"id", "username", "email"}, tie),
          SearchLimit)

\* getFollowers: SELECT u.id, u.username, u.name, u.bio, ... FROM users u
\* JOIN follows f ON u.id = f.follower_id ... WHERE f.following_id = ?
getFollowers(userId, tie) ==
    UserRows({u \in users : u.id \in FollowersOf(userId)}, {"id", "username"}, tie)

\* getFollowing: ... JOIN follows f ON u.id = f.following_id ... WHERE
\* f.follower_id = ?
getFollowing(userId, tie) ==
    UserRows({u \in users : u.id \in Followees(userId)}, {"id", "username"}, tie)

\* The rows of getConversationParticipants: SELECT u.id, u.username, u.name
ParticipantRows(conversationId, tie) ==
    LET ids == getConversationParticipants(conversationId, tie)
    IN [i \in DOMAIN ids |->
            Select(CHOOSE u \in users : u.id = ids[i], {"id", "username"})]

\* The reads of users called by themselves; resp.rows is what the promise
\* resolves with (one row or none for the db.get reads).
RowOrNone(S) == IF S = {} THEN <<>> ELSE <<CHOOSE r \in S : TRUE>>

UserRead(op, key, rows) ==
    /\ resp' = [NoResp EXCEPT !.op = op, !.user = key, !.rows = rows]
    /\ UNCHANGED <<users, http, posts, postSeq, likes, comments, bookmarks,
                   follows, clock>>
    /\ UNCHANGED notApi

GetUserByEmail(email) ==
    UserRead("getUserByEmail", email, RowOrNone(getUserByEmail(email)))

GetUserByUsername(username) ==
    UserRead("getUserByUsername", username, RowOrNone(getUserByUsername(username)))

GetUserById(userId) ==
    UserRead("getUserById", userId, RowOrNone(getUserById(userId)))

SearchUsers(query, currentUserId, tie) ==
    UserRead("searchUsers", currentUserId, searchUsers(query, currentUserId, tie))

GetFollowers(userId, tie) ==
    UserRead("getFollowers", userId, getFollowers(userId, tie))

GetFollowing(userId, tie) ==
    UserRead("getFollowing", userId, getFollowing(userId, tie))

\* getUserStats: three COUNT(*) subqueries, over posts and over follows.
getUserStats(userId) ==
    [posts |-> Cardinality({p \in DOMAIN posts : posts[p].user_id = userId}),
     followers |-> Cardinality({f \in follows : f[2] = userId}),
     following |-> Cardinality({f \in follows : f[1] = userId})]

GetUserStats(userId) == UserRead("getUserStats", userId, <<getUserStats(userId)>>)

GetConversationParticipants(conversationId, tie) ==
    UserRead("getConversationParticipants", "",
             ParticipantRows(conversationId, tie))

\* updateUserProfile called by itself: the UPDATE, then the SELECT.
UpdateUserProfileCall(userId, username) ==
    /\ users' = updateUserProfile(userId, username)
    /\ resp' = [NoResp EXCEPT !.op = "updateUserProfile", !.user = userId,
                               !.ok = ~UpdateConflicts(userId, username),
                               !.rows = IF UpdateConflicts(userId, username)
                                        THEN <<>>
                                        ELSE RowOrNone(updatedProfile(userId, username))]
    /\ UNCHANGED <<http, posts, postSeq, likes, comments, bookmarks, follows,
                   clock>>
    /\ UNCHANGED notApi

\* createUser called by itself, with the id uuidv4() hands out.
CreateUserCall(email, username) ==
    /\ FreshUserIds \ UserIds # {}
    /\ LET user == [id |-> CHOOSE id \in FreshUserIds \ UserIds : TRUE,
                     email |-> email, username |-> username,
                     password |-> "$2a$10$"]
       IN /\ users' = createUser(user)
          /\ resp' = [NoResp EXCEPT !.op = "createUser",
                                     !.ok = (Conflicts(user) = {})]
    /\ UNCHANGED <<http, posts, postSeq, likes, comments, bookmarks, follows,
                   clock>>
    /\ UNCHANGED notApi

\* ------------------------------------------------ POST /api/auth/signup
\* if (!email || !password || !username) return res.status(400); then the
\* SELECT of getUserByEmail is issued.
SignupRequest(p, email, username) ==
    /\ SlotFree(p)
    /\ http' = [http EXCEPT ![p] =
            IF email = "" \/ username = ""
            THEN [NoRequest EXCEPT !.route = "signup", !.pc = "done",
                                   !.email = email, !.username = username,
                                   !.status = 400]
            ELSE [NoRequest EXCEPT !.route = "signup", !.pc = "byEmail",
                                   !.email = email, !.username = username]]
    /\ UNCHANGED <<users, postVars, clock>>
    /\ UNCHANGED notApi

\* const existingUser = await db.getUserByEmail(email);
SignupByEmail(p) ==
    /\ http[p].route = "signup" /\ http[p].pc = "byEmail"
    /\ IF getUserByEmail(http[p].email) # Null
       THEN Answer(p, 400)
       ELSE http' = [http EXCEPT ![p].pc = "byUsername"]
    /\ UNCHANGED <<users, postVars, clock>>
    /\ UNCHANGED notApi

\* const existingUsername = await db.getUserByUsername(username);
SignupByUsername(p) ==
    /\ http[p].route = "signup" /\ http[p].pc = "byUsername"
    /\ IF getUserByUsername(http[p].username) # Null
       THEN Answer(p, 400)
       ELSE http' = [http EXCEPT ![p].pc = "createUser"]
    /\ UNCHANGED <<users, postVars, clock>>
    /\ UNCHANGED notApi

\* const userId = uuidv4(); await db.createUser({...}); res.status(201),
\* or the catch: res.status(500).
SignupCreate(p) ==
    /\ http[p].route = "signup" /\ http[p].pc = "createUser"
    /\ FreshUserIds \ UserIds # {}
    /\ LET user == [id |-> CHOOSE id \in FreshUserIds \ UserIds : TRUE,
                     email |-> http[p].email, username |-> http[p].username,
                     password |-> "$2a$10$"]
       IN /\ users' = createUser(user)
          /\ http' = [http EXCEPT
                ![p].pc = "done",
                ![p].status = IF Conflicts(user) = {} THEN 201 ELSE 500,
                ![p].err = IF Conflicts(user) = {} THEN ""
                           ELSE "SQLITE_CONSTRAINT"]
    /\ UNCHANGED <<postVars, clock>>
    /\ UNCHANGED notApi

\* -------------------------------------------------- PUT /api/users/profile
\* if (!username || username.trim().length === 0) return res.status(400);
\* then the SELECT of getUserByUsername is issued.
ProfileRequest(p, userId, username) ==
    /\ SlotFree(p)
    /\ http' = [http EXCEPT ![p] =
            IF username = ""
            THEN [NoRequest EXCEPT !.route = "profile", !.pc = "done",
                                   !.caller = userId, !.username = username,
                                   !.status = 400]
            ELSE [NoRequest EXCEPT !.route = "profile", !.pc = "byUsername",
                                   !.caller = userId, !.username = username]]
    /\ UNCHANGED <<users, postVars, clock>>
    /\ UNCHANGED notApi

\* if (existingUser && existingUser.id !== userId) return res.status(400)
ProfileByUsername(p) ==
    /\ http[p].route = "profile" /\ http[p].pc = "byUsername"
    /\ IF \E u \in getUserByUsername(http[p].username) : u.id # http[p].caller
       THEN Answer(p, 400)
       ELSE http' = [http EXCEPT ![p].pc = "update"]
    /\ UNCHANGED <<users, postVars, clock>>
    /\ UNCHANGED notApi

\* await db.updateUserProfile(userId, {...}); getUserById; res.json, or
\* the catch: res.status(500).
ProfileUpdate(p) ==
    /\ http[p].route = "profile" /\ http[p].pc = "update"
    /\ users' = updateUserProfile(http[p].caller, http[p].username)
    /\ http' = [http EXCEPT
            ![p].pc = "done",
            ![p].status = IF UpdateConflicts(http[p].caller, http[p].username)
                          THEN 500 ELSE 200,
            ![p].err = IF UpdateConflicts(http[p].caller, http[p].username)
                       THEN "SQLITE_CONSTRAINT" ELSE ""]
    /\ UNCHANGED <<postVars, clock>>
    /\ UNCHANGED notApi

\* ------------------------------------------ calls of the enriched views
\* getFeedPosts, getExplorePosts, getUserPosts and getBookmarkedPosts are
\* new Promise(...) around db.all(sql, params, async (err, rows) => ...):
\* the main query, then one getPostComments query per row under
\* Promise.all, then resolve(posts).  http[p] is the caller awaiting the
\* promise: pc "done" once it settled (status 200 resolved, 500 rejected).
ViewNames ==
    {"getFeedPosts", "getExplorePosts", "getUserPosts", "getBookmarkedPosts"}

ViewResults(view, userId) ==
    CASE view = "getFeedPosts" ->
            {getFeedPosts(userId, tie) : tie \in TieOrders}
      [] view = "getExplorePosts" -> getExplorePosts(userId)
      [] view = "getUserPosts" ->
            {getUserPosts(userId, tie) : tie \in TieOrders}
      [] view = "getBookmarkedPosts" ->
            {getBookmarkedPosts(userId, tie) : tie \in TieOrders}

\* The call: this.db.all(...) issues the main query.
ViewCall(p, view, userId) ==
    /\ SlotFree(p)
    /\ http' = [http EXCEPT ![p] =
            [NoRequest EXCEPT !.route = view, !.pc = "query", !.caller = userId]]
    /\ UNCHANGED <<users, postVars, clock>>
    /\ UNCHANGED notApi

\* The main query answers with rows: rows.map issues getPostComments for
\* every row, and the callback awaits Promise.all of them.
ViewQuery(p) ==
    /\ http[p].route \in ViewNames /\ http[p].pc = "query"
    /\ \E rows \in ViewResults(http[p].route, http[p].caller) :
            http' = [http EXCEPT ![p].pc = "comments", ![p].rows = rows,
                                 ![p].left = {rows[i].id : i \in DOMAIN rows}]
    /\ UNCHANGED <<users, postVars, clock>>
    /\ UNCHANGED notApi

\* One getPostComments query answers with its rows.
ViewComments(p, postId) ==
    /\ http[p].route \in ViewNames /\ http[p].pc = "comments"
    /\ postId \in http[p].left
    /\ http' = [http EXCEPT ![p].left = @ \ {postId}]
    /\ UNCHANGED <<users, postVars, clock>>
    /\ UNCHANGED notApi

\* Promise.all has resolved: resolve(posts).
ViewResolve(p) ==
    /\ http[p].route \in ViewNames /\ http[p].pc = "comments"
    /\ http[p].left = {}
    /\ Answer(p, 200)
    /\ UNCHANGED <<users, postVars, clock>>
    /\ UNCHANGED notApi

\* The main query fails: if (err) reject(err).
ViewQueryFails(p) ==
    /\ http[p].route \in ViewNames /\ http[p].pc = "query"
    /\ http' = [http EXCEPT ![p].pc = "done", ![p].status = 500,
                            ![p].flag = TRUE, ![p].err = "SQLITE_ERROR"]
    /\ UNCHANGED <<users, postVars, clock>>
    /\ UNCHANGED notApi

\* A getPostComments query fails: its promise rejects, Promise.all
\* rejects, and the await throws inside the async callback of db.all.
\* Nothing catches it there: neither resolve nor reject of the view's
\* promise is called ("pending" for good), and the rejection of the
\* callback's own promise is unhandled, which ends the process or not as
\* node is set up ("exited").
ViewCommentsFail(p, postId, outcome) ==
    /\ http[p].route \in ViewNames /\ http[p].pc = "comments"
    /\ postId \in http[p].left
    /\ outcome \in {"pending", "exited"}
    /\ http' = [http EXCEPT ![p].pc = outcome, ![p].flag = TRUE,
                            ![p].post = postId, ![p].err = "SQLITE_ERROR"]
    /\ UNCHANGED <<users, postVars, clock>>
    /\ UNCHANGED notApi

\* new Date() / CURRENT_TIMESTAMP advancing between the handlers' steps.
ApiTick ==
    /\ clock < MaxClock
    /\ clock' = clock + 1
    /\ UNCHANGED <<userVars, postVars>>
    /\ UNCHANGED notApi

ApiInit ==
    /\ users = SeedUsers
    /\ http = [p \in Procs |-> NoRequest]
    /\ uploads = {}

MsgInit ==
    /\ conversations = <<>>
    /\ participants = {}
    /\ messages = {}
    /\ clock = 1
    /\ req = [p \in Procs |-> Idle]
    /\ hist = NoHist
    /\ faults = 0

\* A store that many createPost calls have filled: n posts, the first `old`
\* of them written at the first reading of the clock and the others at the
\* last, by A alone ("own"), by A and B in turn ("alternate"), or the
\* first by B and the others by A ("oldestOther").
StoreSizes == (FeedLimit - 1)..(FeedLimit + MaxExtra)
AuthorPatterns == {"own", "alternate", "oldestOther"}
OldCounts == {0, 1, 2, FeedLimit}

FilledStore(n, authors, old) ==
    [p \in 1..n |->
        [user_id |-> CASE authors = "own" -> "A"
                       [] authors = "alternate" ->
                              IF p % 2 = 1 THEN "A" ELSE "B"
                       [] authors = "oldestOther" ->
                              IF p = 1 THEN "B" ELSE "A",
         created_at |-> IF p <= old THEN 1 ELSE MaxClock,
         image_url |-> Null]]

FeedPageInit ==
    /\ conversations = <<>>
    /\ participants = {}
    /\ messages = {}
    /\ clock = MaxClock
    /\ req = [p \in Procs |-> Idle]
    /\ hist = NoHist
    /\ faults = 0
    /\ MigInit
    /\ ApiInit
    /\ \E n \in StoreSizes, authors \in AuthorPatterns, old \in OldCounts :
            /\ posts = FilledStore(n, authors, old)
            /\ postSeq = n
    /\ likes = {}
    /\ comments = {}
    /\ bookmarks = {}
    /\ follows = {}
    /\ resp = NoResp

\* A messages table that createMessage calls have filled, A and B sending
\* in turn.  Small stores: up to MaxStored messages, each in one of two
\* conversations, at any of MaxStored times.  Large stores: DefaultLimit or
\* one more message in conversation 1, the first `old` of them at the
\* first time.
StoredTimes == 1..MaxStored
StoredConvs == {1, 2}
LimitInputs == {Null} \cup {{k} : k \in 0..MaxStored}
BeforeInputs == {Null} \cup {{t} : t \in 1..(MaxStored + 1)}

SmallStores ==
    UNION {{ {[id |-> i, conversation_id |-> f[i][1],
               sender_id |-> IF i % 2 = 1 THEN "A" ELSE "B",
               created_at |-> f[i][2]] : i \in 1..n} :
                f \in [1..n -> StoredConvs \X StoredTimes]} :
            n \in 0..MaxStored}

LargeStores ==
    {{[id |-> i, conversation_id |-> 1,
       sender_id |-> IF i % 2 = 1 THEN "A" ELSE "B",
       created_at |-> IF i <= old THEN 1 ELSE MaxStored] : i \in 1..n} :
        n \in DefaultLimit..(DefaultLimit + 1), old \in {0, 1, 2}}

\* last_message_at as the createMessage calls left it.
LastMessageAt(store, c) ==
    LET times == {m.created_at : m \in {x \in store : x.conversation_id = c}}
    IN IF times = {} THEN Null
       ELSE {CHOOSE t \in times : \A u \in times : u <= t}

MessagePageInit ==
    /\ \E store \in SmallStores \cup LargeStores :
            /\ messages = store
            /\ conversations =
                    [c \in StoredConvs |->
                        [type |-> "group", created_at |-> 1,
                         last_message_at |-> LastMessageAt(store, c)]]
    /\ participants = {}
    /\ clock = MaxStored
    /\ req = [p \in Procs |-> Idle]
    /\ hist = NoHist
    /\ faults = 0
    /\ MigInit
    /\ ApiInit
    /\ PostInit

vars == <<msgVars, migVars, postVars, userVars, diskVars>>

Init == MsgInit /\ MigInit /\ PostInit /\ ApiInit

\* The messaging repository, conversation side: concurrent
\* getOrCreateDirectConversation calls.
ConvNext ==
    \/ \E p \in Procs, a \in Users, b \in Users : GocCall(p, a, b)
    \/ \E p \in Procs : GocFind(p)
    \/ \E p \in Procs : GocCreate(p)
    \/ \E p \in Procs : GocAdd1(p)
    \/ \E p \in Procs : GocAdd2(p)
    \/ \E p \in Procs : CommandFails(p)
    \/ \E p \in Procs : Settle(p)
    \/ Tick

ConvSpec == Init /\ [][ConvNext]_vars

\* The messaging repository, message side: concurrent createMessage calls
\* on conversations made by createConversation.
MsgNext ==
    \/ \E t \in {"direct", "group"} : CreateConversationCall(t)
    \/ \E p \in Procs, c \in ConvIds, s \in Users : MsgCall(p, c, s)
    \/ \E p \in Procs : MsgInsert(p)
    \/ \E p \in Procs : MsgUpdate(p)
    \/ \E p \in Procs : MsgReadback(p)
    \/ \E p \in Procs : CommandFails(p)
    \/ \E p \in Procs : Settle(p)
    \/ Tick

MsgSpec == Init /\ [][MsgNext]_vars

\* The same callers on a store whose commands all succeed.
MsgRaceNext ==
    \/ \E t \in {"direct", "group"} : CreateConversationCall(t)
    \/ \E p \in Procs, c \in ConvIds, s \in Users : MsgCall(p, c, s)
    \/ \E p \in Procs : MsgInsert(p)
    \/ \E p \in Procs : MsgUpdate(p)
    \/ \E p \in Procs : MsgReadback(p)
    \/ \E p \in Procs : Settle(p)
    \/ Tick

MsgRaceSpec == Init /\ [][MsgRaceNext]_vars

\* The migration runner: the CLI runs one command at a time.
MigNext ==
    \/ \E command \in {"migrate", "rollback"} : MigStart(command)
    \/ initMigrationsTable
    \/ MigratePlan
    \/ UpStatement
    \/ RecordMigration
    \/ RollbackPlan
    \/ DownStatement
    \/ DownCatch
    \/ UnrecordMigration
    \/ MigCommandFails
    \/ MigExit
    \/ MigCrash

MigSpec == Init /\ [][MigNext]_vars

\* The three commands of the migrator, in any order.
StatusNext ==
    \/ MigNext
    \/ MigStart("status")
    \/ StatusReport

StatusSpec == Init /\ [][StatusNext]_vars

\* migrate() run again and again, with the process killed or a store
\* command failing now and then, and no rollback.  node runs a started
\* command to its end unless the process is killed, and the operator runs
\* migrate again after every interruption.
MigrateNext ==
    \/ MigStart("migrate")
    \/ initMigrationsTable
    \/ MigratePlan
    \/ UpStatement
    \/ RecordMigration
    \/ MigCommandFails
    \/ MigExit
    \/ MigCrash

MigrateRun ==
    \/ MigStart("migrate")
    \/ initMigrationsTable
    \/ MigratePlan
    \/ UpStatement
    \/ RecordMigration
    \/ MigExit

MigLiveSpec == Init /\ [][MigrateNext]_vars /\ WF_vars(MigrateRun)

\* The post repository: posts with their likes, comments and bookmarks,
\* all written within one reading of the clock.
PostNext ==
    \/ \E id \in PostIds, u \in Users : createPost(id, u)
    \/ \E p \in PostIds : deletePost(p)
    \/ \E p \in PostIds, u \in Users : likePost(p, u)
    \/ \E id \in CommentIds, p \in PostIds, u \in Users : addComment(id, p, u)
    \/ \E p \in PostIds, u \in Users : bookmarkPost(p, u)

PostSpec == Init /\ [][PostNext]_vars

\* The like edge: likePost and unlikePost called in any order while the
\* clock advances.
LikeNext ==
    \/ \E p \in PostIds, u \in Users : likePost(p, u)
    \/ \E p \in PostIds, u \in Users : unlikePost(p, u)
    \/ PostTick

LikeSpec == Init /\ [][LikeNext]_vars

\* The bookmark and follow edges, written through the repository (which,
\* unlike the follow endpoint, takes any pair of users).
EdgeNext ==
    \/ \E p \in PostIds, u \in Users : bookmarkPost(p, u)
    \/ \E p \in PostIds, u \in Users : unbookmarkPost(p, u)
    \/ \E a \in Users, b \in Users : followUser(a, b)
    \/ \E a \in Users, b \in Users : unfollowUser(a, b)
    \/ PostTick

\* The feed and the explore page: users post, follow and unfollow, and
\* read both pages, all within one reading of the clock (which posts a page
\* holds does not depend on the times).
FeedNext ==
    \/ \E id \in PostIds, u \in Users : createPost(id, u)
    \/ \E a \in Users, b \in Users : followUser(a, b)
    \/ \E a \in Users, b \in Users : unfollowUser(a, b)
    \/ \E u \in Users, tie \in TieOrders : GetFeedPosts(u, tie)
    \/ \E u \in Users : GetExplorePosts(u)

FeedSpec == Init /\ [][FeedNext]_vars

\* The feed read from a store of about FeedLimit posts, while the users
\* follow and unfollow each other.
FeedPageNext ==
    \/ \E a \in Users, b \in Users : a # b /\ followUser(a, b)
    \/ \E a \in Users, b \in Users : a # b /\ unfollowUser(a, b)
    \/ \E u \in Users, tie \in TieOrders : GetFeedPosts(u, tie)

FeedPageSpec == FeedPageInit /\ [][FeedPageNext]_vars

\* The four enriched views read while posts are written, the posts
\* written are liked and unliked, and one reader bookmarks them, all within
\* one reading of the clock.
ViewNext ==
    \/ \E id \in PostIds, u \in Users : createPost(id, u)
    \/ \E id \in DOMAIN posts, u \in Users : likePost(id, u)
    \/ \E id \in DOMAIN posts, u \in Users : unlikePost(id, u)
    \/ \E id \in DOMAIN posts : bookmarkPost(id, "A")
    \/ \E u \in Users, tie \in TieOrders : GetFeedPosts(u, tie)
    \/ \E u \in Users : GetExplorePosts(u)
    \/ \E u \in Users, tie \in TieOrders : GetUserPosts(u, tie)
    \/ \E u \in Users, tie \in TieOrders : GetBookmarkedPosts(u, tie)

ViewSpec == Init /\ [][ViewNext]_vars

\* The bookmarks page: posts are written and deleted, the posts there are
\* bookmarked and unbookmarked, and the page is read, while the clock
\* advances.
BookmarkViewNext ==
    \/ \E id \in PostIds, u \in Users : createPost(id, u)
    \/ \E id \in DOMAIN posts : deletePost(id)
    \/ \E id \in DOMAIN posts, u \in Users : bookmarkPost(id, u)
    \/ \E id \in PostIds, u \in Users : unbookmarkPost(id, u)
    \/ \E u \in Users, tie \in TieOrders : GetBookmarkedPosts(u, tie)
    \/ PostTick

BookmarkViewSpec == Init /\ [][BookmarkViewNext]_vars

\* One page of messages read from a filled messages table.
MessagePageNext ==
    /\ resp = NoResp
    /\ \E c \in StoredConvs, limit \in LimitInputs, before \in BeforeInputs,
          tie \in TieOrders : GetConversationMessages(c, limit, before, tie)

MessagePageSpec == MessagePageInit /\ [][MessagePageNext]_vars

\* The list of conversations: one caller creates group conversations, adds
\* participants and sends messages, one call after the other, and then
\* the list is read.
ConvViewNext ==
    /\ resp = NoResp
    /\ \/ CreateConversationCall("group")
       \/ \E c \in DOMAIN conversations, u \in Users : AddParticipantCall(c, u)
       \/ \E c \in ConvIds, u \in Users : MsgCall("r1", c, u)
       \/ MsgInsert("r1")
       \/ MsgUpdate("r1")
       \/ MsgReadback("r1")
       \/ Settle("r1")
       \/ \E u \in Users, tie \in TieOrders : GetUserConversations(u, tie)
       \/ Tick

ConvViewSpec == Init /\ [][ConvViewNext]_vars

\* Accounts: signups and profile updates in flight together, and createUser
\* called by itself.
UserNext ==
    \/ \E email \in EmailInputs, username \in UsernameInputs :
            CreateUserCall(email, username)
    \/ \E p \in Procs, email \in EmailInputs, username \in UsernameInputs :
            SignupRequest(p, email, username)
    \/ \E p \in Procs : SignupByEmail(p)
    \/ \E p \in Procs : SignupByUsername(p)
    \/ \E p \in Procs : SignupCreate(p)
    \/ \E p \in Procs, u \in Users, username \in UsernameInputs :
            ProfileRequest(p, u, username)
    \/ \E p \in Procs : ProfileByUsername(p)
    \/ \E p \in Procs : ProfileUpdate(p)

UserSpec == Init /\ [][UserNext]_vars

\* Direct conversations: one caller calls getOrCreateDirectConversation and
\* addParticipant, one call after the other, and no store command fails.
DirectNext ==
    \/ \E a \in Users, b \in Users : GocCall("r1", a, b)
    \/ GocFind("r1")
    \/ GocCreate("r1")
    \/ GocAdd1("r1")
    \/ GocAdd2("r1")
    \/ Settle("r1")
    \/ \E c \in DOMAIN conversations, u \in Users \cup FreshUserIds :
            req["r1"].op = "idle" /\ AddParticipantCall(c, u)
    \/ Tick

DirectSpec == Init /\ [][DirectNext]_vars

\* One caller writes posts and comments and calls the enriched views, and
\* store commands fail now and then.  The store answers every command
\* issued.
ViewCallNext ==
    \/ \E id \in PostIds, u \in Users : createPost(id, u)
    \/ \E id \in CommentIds, p \in DOMAIN posts : addComment(id, p, "A")
    \/ \E id \in DOMAIN posts : bookmarkPost(id, "A")
    \/ \E view \in ViewNames, u \in Users : ViewCall("r1", view, u)
    \/ ViewQuery("r1")
    \/ \E id \in PostIds : ViewComments("r1", id)
    \/ ViewResolve("r1")
    \/ ViewQueryFails("r1")
    \/ \E id \in PostIds, outcome \in {"pending", "exited"} :
            ViewCommentsFail("r1", id, outcome)

ViewCallAnswered ==
    \/ ViewQuery("r1")
    \/ \E id \in PostIds : ViewComments("r1", id)
    \/ ViewResolve("r1")
    \/ ViewQueryFails("r1")
    \/ \E id \in PostIds, outcome \in {"pending", "exited"} :
            ViewCommentsFail("r1", id, outcome)

\* Accounts, follow edges and the participants of one group conversation
\* come and go, and the reads of users are called in between.
UserReadNext ==
    \/ \E email \in EmailInputs, username \in UsernameInputs :
            CreateUserCall(email, username)
    \/ \E u \in Users, username \in UsernameInputs :
            UpdateUserProfileCall(u, username)
    \/ \E a \in Users, b \in Users : followUser(a, b)
    \/ \E a \in Users, b \in Users : unfollowUser(a, b)
    \/ DOMAIN conversations = {} /\ CreateConversationCall("group")
    \/ \E c \in DOMAIN conversations, u \in Users : AddParticipantCall(c, u)
    \/ \E email \in EmailInputs : GetUserByEmail(email)
    \/ \E username \in UsernameInputs : GetUserByUsername(username)
    \/ \E u \in TargetIds : GetUserById(u)
    \/ \E query \in {"", "a"}, u \in Users, tie \in TieOrders :
            SearchUsers(query, u, tie)
    \/ \E u \in Users, tie \in TieOrders : GetFollowers(u, tie)
    \/ \E u \in Users, tie \in TieOrders : GetFollowing(u, tie)
    \/ \E c \in DOMAIN conversations, tie \in TieOrders :
            GetConversationParticipants(c, tie)

UserReadSpec == Init /\ [][UserReadNext]_vars

\* Follow edges and posts come and go, and the follower lists and the
\* statistics are read in between.  The id followUser is given is the one
\* of the request's path: any string.
FollowStatsNext ==
    \/ \E a \in Users, b \in TargetIds : followUser(a, b)
    \/ \E a \in Users, b \in TargetIds : unfollowUser(a, b)
    \/ \E id \in PostIds, u \in Users : createPost(id, u)
    \/ \E id \in DOMAIN posts : deletePost(id)
    \/ \E u \in Users, tie \in TieOrders : GetFollowers(u, tie)
    \/ \E u \in Users, tie \in TieOrders : GetFollowing(u, tie)
    \/ \E u \in Users : GetUserStats(u)

FollowStatsSpec == Init /\ [][FollowStatsNext]_vars

\* Like toggles of the callers on the posts of the store.  Posts are
\* written and at most one like is stored by likePost before the first
\* request; every slot carries one request.
NoRequestYet == \A p \in Procs : http[p] = NoRequest

LikeApiNext ==
    \/ \E id \in PostIds, u \in Users :
            NoRequestYet /\ resp.op # "likePost" /\ createPost(id, u)
    \/ \E id \in DOMAIN posts, u \in Users :
            NoRequestYet /\ resp.op # "likePost" /\ likePost(id, u)
    \/ \E p \in Procs, u \in Users, id \in DOMAIN posts :
            http[p] = NoRequest /\ LikeRequest(p, u, id)
    \/ \E p \in Procs : LikeCheck(p)
    \/ \E p \in Procs : LikeToggle(p)
    \/ ApiTick

LikeApiSpec == Init /\ [][LikeApiNext]_vars

\* Posts with and without an image are written, liked and commented, and
\* any user asks for the deletion of any post id.
DeleteApiNext ==
    \/ \E id \in PostIds, u \in Users : createPost(id, u)
    \/ \E id \in PostIds, u \in Users : CreatePostWithImage(id, u)
    \/ \E id \in DOMAIN posts : likePost(id, "B")
    \/ \E id \in CommentIds, post \in DOMAIN posts : addComment(id, post, "B")
    \/ \E p \in Procs, u \in Users, id \in PostIds : DeleteRequest(p, u, id)
    \/ \E p \in Procs : DeleteGetPost(p)
    \/ \E p \in Procs : DeleteRun(p)

DeleteApiSpec == Init /\ [][DeleteApiNext]_vars

ViewCallSpec == Init /\ [][ViewCallNext]_vars /\ WF_vars(ViewCallAnswered)

EdgeSpec == Init /\ [][EdgeNext]_vars

\* The follow endpoint, called by the authenticated users with any target,
\* two requests at a time.
FollowApiNext ==
    \/ \E p \in Procs, c \in Users, t \in TargetIds : FollowRequest(p, c, t)
    \/ \E p \in Procs : FollowCheck(p)
    \/ \E p \in Procs : FollowToggle(p)
    \/ ApiTick

FollowApiSpec == Init /\ [][FollowApiNext]_vars

\* ================================================================ claims
DirectBetween(a, b) ==
    {c \in DOMAIN conversations :
        conversations[c].type = "direct" /\ ParticipantsOf(c) = {a, b}}

\* C1: for distinct users A and B, under any interleaving of concurrent
\* getOrCreateDirectConversation calls, every reachable state holds at most
\* one conversation of type 'direct' whose participant set is exactly {A, B}.
C1_AtMostOneDirectPerPair ==
    \A a \in Users, b \in Users :
        a # b => Cardinality(DirectBetween(a, b)) <= 1

\* The second of two sequential calls with the same arguments: each ran
\* with no other request in flight, and nothing started between them.
SecondOfTwo(p) ==
    /\ req[p].op = "getOrCreate"
    /\ req[p].pc = "done"
    /\ req[p].solo
    /\ req[p].prev.valid
    /\ req[p].prev.solo
    /\ req[p].prev.u1 = req[p].u1
    /\ req[p].prev.u2 = req[p].u2
    /\ req[p].u1 # req[p].u2

\* C2: when getOrCreateDirectConversation(A,B) is called twice in sequence
\* for distinct users with no other operation in between, the second call
\* returns the id the first returned, with created = false, and has written
\* nothing; the first, on a store with no direct conversation of the pair,
\* returned created = true.
C2_SequentialCallsAgree ==
    \A p \in Procs :
        SecondOfTwo(p) =>
            /\ req[p].conv = req[p].prev.id
            /\ req[p].created = FALSE
            /\ req[p].wrote = FALSE
            /\ ~req[p].prev.had => req[p].prev.created

C2_Witness ==
    \E p \in Procs :
        /\ SecondOfTwo(p)
        /\ ~req[p].prev.had /\ req[p].prev.created
        /\ req[p].conv = req[p].prev.id
        /\ req[p].conv \in DirectBetween(req[p].u1, req[p].u2)

\* C3: in every state a reader can observe, a conversation holding a
\* message with created_at = t has last_message_at set, to a value >= t.
C3_MessageNeverAheadOfLastMessageAt ==
    \A m \in messages :
        m.conversation_id \in DOMAIN conversations =>
            /\ conversations[m.conversation_id].last_message_at # Null
            /\ \A t \in conversations[m.conversation_id].last_message_at :
                   t >= m.created_at

\* C4: a createMessage that surfaces a failure leaves the store as it was:
\* its message row is not persisted and (no other request having run) the
\* conversation's last_message_at is what it was at the call.
C4_FailedCreateMessageLeavesNoTrace ==
    \A p \in Procs :
        (req[p].op = "createMessage" /\ req[p].pc = "failed") =>
            /\ ~\E m \in messages : m.id = req[p].id
            /\ req[p].solo =>
                   conversations[req[p].conv].last_message_at = req[p].lma0

\* C5: the creation branch of getOrCreateDirectConversation is atomic: a
\* call that failed has left no conversation row and no participant row,
\* and the conversation a call has inserted is never observable with fewer
\* than its two participant rows.
C5_CreationBranchAtomic ==
    \A p \in Procs :
        (req[p].op = "getOrCreate" /\ req[p].u1 # req[p].u2) =>
            /\ req[p].pc = "failed" =>
                   /\ req[p].id \notin DOMAIN conversations
                   /\ ParticipantsOf(req[p].id) = {}
            /\ req[p].id \in DOMAIN conversations =>
                   ParticipantsOf(req[p].id) = {req[p].u1, req[p].u2}

\* ------------------------------------------------------------ migrations
Front(q) == SubSeq(q, 1, Len(q) - 1)
LogNames == [k \in 1..Len(mig.log) |-> mig.log[k].name]
PendingAscending(led) == SortNames(Range(dir) \ Range(led))

\* C6: migrate() runs the forward changes of the files not in the ledger in
\* ascending name order; a name enters the ledger only after its forward
\* change succeeded; at the first forward change that fails the run has
\* stopped with the error thrown, the failing migration is not in the
\* ledger, and no later migration has been applied or recorded.
C6_MigrateInOrderStopsAtFirstFailure ==
    mig.cmd = "migrate" =>
        LET asc == PendingAscending(mig.led0)
            n == Len(mig.log)
        IN /\ n <= Len(asc)
           /\ LogNames = SubSeq(asc, 1, n)
           /\ \E r \in 0..n :
                 /\ ledger = mig.led0 \o SubSeq(asc, 1, r)
                 /\ \A k \in 1..r : mig.log[k].res = "ok"
           /\ \A k \in 1..n : mig.log[k].res # "ok" => k = n
           /\ (n > 0 /\ mig.log[n].res = "failed") =>
                 /\ mig.pc = "failed"
                 /\ mig.log[n].name \notin Range(ledger)

C6_Witness ==
    /\ mig.cmd = "migrate"
    /\ mig.pc = "failed"
    /\ Len(mig.log) >= 2
    /\ Len(mig.log) < Len(mig.pending)
    /\ mig.log[Len(mig.log)].res = "failed"
    /\ ledger = mig.led0 \o SubSeq(mig.pending, 1, Len(mig.log) - 1)

\* C7: a migrate() run right after a migrate() that completed, the files
\* being the same, applies no forward change and leaves the ledger (and
\* the schema) as it was, without duplicates.
C7_SecondMigrateIsNoOp ==
    (mig.cmd = "migrate" /\ mig.afterOk) =>
        /\ mig.log = <<>>
        /\ mig.pc \notin {"up", "record"}
        /\ ledger = mig.led0
        /\ schema = mig.sch0
        /\ Cardinality(Range(ledger)) = Len(ledger)

C7_Witness ==
    /\ mig.cmd = "migrate"
    /\ mig.afterOk
    /\ mig.pc = "done"
    /\ Range(ledger) = MigrationNames

RollbackUndoesOnlyTheLast ==
    /\ Len(mig.log) <= 1
    /\ mig.log # <<>> =>
          /\ mig.led0 # <<>>
          /\ mig.log[1].name = mig.led0[Len(mig.led0)]
    /\ ledger # mig.led0 =>
          /\ mig.log # <<>>
          /\ mig.log[1].res = "ok"
          /\ ledger = Front(mig.led0)
    /\ (mig.pc = "done" /\ mig.led0 # <<>>) => ledger = Front(mig.led0)
    /\ (mig.log # <<>> /\ mig.log[1].res = "failed") =>
          /\ ledger = mig.led0
          /\ mig.pc \in {"catch", "failed"}
    /\ mig.led0 = <<>> =>
          /\ mig.log = <<>>
          /\ ledger = <<>>
          /\ schema = mig.sch0

\* C8 (as amended): rollback() runs the backward change of exactly one
\* migration, the last ledger entry by insertion order, and then deletes
\* exactly that entry; if the backward change throws, the ledger is
\* unchanged and the error is propagated; with an empty ledger it runs no
\* backward change and changes no ledger entry and no schema object other
\* than creating the ledger table when that is absent.
C8_RollbackUndoesOnlyTheLast ==
    mig.cmd = "rollback" => RollbackUndoesOnlyTheLast

C8_Witness ==
    /\ mig.cmd = "rollback"
    /\ mig.pc = "done"
    /\ Len(mig.led0) >= 2
    /\ mig.log = <<[name |-> mig.led0[Len(mig.led0)], res |-> "ok"]>>
    /\ ledger = Front(mig.led0)

\* C8 as claimed: in addition, with an empty ledger rollback() changes
\* nothing at all, the existence of the ledger table included.
C8_RollbackAsClaimed ==
    mig.cmd = "rollback" =>
        /\ RollbackUndoesOnlyTheLast
        /\ mig.led0 = <<>> => ledgerTable = mig.tbl0

\* The schema an uninterrupted migrate() of all files leaves.
RECURSIVE RunStatements(_, _, _)
RunStatements(sts, sch, cols) ==
    IF sts = <<>> THEN sch
    ELSE LET r == Exec(Head(sts), sch, cols, Null)
         IN RunStatements(Tail(sts), r.sch, r.cols)

RECURSIVE RunUps(_, _)
RunUps(files, sch) ==
    IF files = <<>> THEN sch
    ELSE RunUps(Tail(files), RunStatements(Up(Head(files)), sch, {}))

UninterruptedSchema == RunUps(SortNames(MigrationNames), {})

AllRecorded ==
    /\ Range(ledger) = Range(dir)
    /\ Len(ledger) = Cardinality(Range(dir))
    /\ schema = UninterruptedSchema

\* C9: after a crash during a migration (part-way through its forward
\* change, or between the forward change and the ledger insert), running
\* migrate() again never fails on a schema object that is already present,
\* and eventually every migration file is in the ledger exactly once with
\* the schema that of an uninterrupted run.
C9_CrashRecoverable ==
    /\ [](mig.cmd = "migrate" => mig.err # "schema")
    /\ (crashedMid ~> AllRecorded)

C9_Witness ==
    /\ crashedMid
    /\ AllRecorded
    /\ mig.cmd = "migrate"
    /\ mig.pc = "done"

\* ----------------------------------------------------------------- posts
\* C10: once deletePost(P) has completed (P being a post of the store), no
\* like row, no comment row and no bookmark row referencing P is left.
C10_DeletePostLeavesNoChildren ==
    (resp.op = "deletePost" /\ resp.ok /\ resp.found) =>
        /\ ~\E l \in likes : l[1] = resp.post
        /\ ~\E c \in comments : c.post_id = resp.post
        /\ ~\E b \in bookmarks : b[2] = resp.post

\* At most one row of likes per PRIMARY KEY (post_id, user_id).
LikesKeyUnique ==
    \A a \in likes : \A b \in likes : (a[1] = b[1] /\ a[2] = b[2]) => a = b

\* A likePost(P,U) that follows a likePost(P,U) leaves the likes table as
\* the first call left it, and resolves.
LikeTwiceSame ==
    (/\ resp.op = "likePost" /\ resp'.op = "likePost"
     /\ resp'.post = resp.post /\ resp'.user = resp.user)
        => (likes' = likes /\ resp'.ok)

\* An unlikePost(P,U) issued when no row for (P,U) exists resolves and
\* leaves the store as it was.
UnlikeAbsentNoOp ==
    (/\ resp'.op = "unlikePost"
     /\ ~isPostLiked(resp'.post, resp'.user))
        => (/\ likes' = likes /\ resp'.ok
            /\ UNCHANGED <<posts, comments, bookmarks, follows>>)

\* C11: for every post P and user U, likePost(P,U) executed twice leaves
\* the same store state as executing it once, there is at most one like row
\* per (P,U) in every reachable state, and unlikePost(P,U) with no like row
\* for (P,U) succeeds without error and changes nothing.
C11_LikeIdempotentUnlikeNoOp ==
    /\ []LikesKeyUnique
    /\ [][LikeTwiceSame /\ UnlikeAbsentNoOp]_vars

\* A second likePost(P,U) has resolved, at a later reading of the clock
\* than the first, and the row of the first is the one in the table.
C11_Witness ==
    /\ resp.op = "likePost" /\ resp.had /\ resp.ok
    /\ \E l \in LikeRows(resp.post, resp.user) : l[3] < clock

\* At most one bookmark per (user, post) and one follow edge per ordered
\* (follower, followee).
EdgeKeysUnique ==
    /\ \A a \in bookmarks : \A b \in bookmarks :
            (a[1] = b[1] /\ a[2] = b[2]) => a = b
    /\ \A a \in follows : \A b \in follows :
            (a[1] = b[1] /\ a[2] = b[2]) => a = b

\* Right after an operation on a pair, the existence check of that pair
\* says whether the operation was the insert.
LastEdgeOpDecides ==
    /\ resp.op = "bookmarkPost" => isPostBookmarked(resp.post, resp.user)
    /\ resp.op = "unbookmarkPost" => ~isPostBookmarked(resp.post, resp.user)
    /\ resp.op = "followUser" => isFollowing(resp.user, resp.target)
    /\ resp.op = "unfollowUser" => ~isFollowing(resp.user, resp.target)
    /\ resp.op \in {"bookmarkPost", "unbookmarkPost",
                     "followUser", "unfollowUser"} => resp.ok

\* The rows a step adds to, or removes from, a table.
Changed(before, after) == (before \ after) \cup (after \ before)

\* A step touches the one pair its operation names and no other; an insert
\* of a present edge and a delete of an absent one touch nothing.
EdgeStepLocal ==
    /\ \A b \in Changed(bookmarks, bookmarks') :
            /\ resp'.op \in {"bookmarkPost", "unbookmarkPost"}
            /\ b[1] = resp'.user /\ b[2] = resp'.post
    /\ \A f \in Changed(follows, follows') :
            /\ resp'.op \in {"followUser", "unfollowUser"}
            /\ f[1] = resp'.user /\ f[2] = resp'.target
    /\ (resp'.op = "bookmarkPost" /\ isPostBookmarked(resp'.post, resp'.user))
            => bookmarks' = bookmarks
    /\ (resp'.op = "followUser" /\ isFollowing(resp'.user, resp'.target))
            => follows' = follows

\* C12: bookmarkPost and followUser are idempotent, unbookmarkPost and
\* unfollowUser are no-ops on an absent edge: there is at most one bookmark
\* per (user, post) and one follow edge per ordered pair, and isPostBookmarked
\* / isFollowing of a pair is true exactly when the last operation on that
\* pair was the insert (each operation decides its own pair and leaves every
\* other pair as it was).
C12_EdgeOpsIdempotent ==
    /\ []EdgeKeysUnique
    /\ []LastEdgeOpDecides
    /\ [][EdgeStepLocal]_vars

\* A present bookmark was removed while another user's earlier bookmark of
\* the same post stays, and a follow edge exists.
C12_Witness ==
    /\ resp.op = "unbookmarkPost" /\ resp.had
    /\ \E b \in bookmarks : b[2] = resp.post /\ b[1] # resp.user /\ b[3] < clock
    /\ follows # {}

\* No follow edge from a user to that same user.
NoSelfFollow == \A f \in follows : f[1] # f[2]

\* A follow request whose target is its caller has been answered 400.
SelfFollowRejected ==
    \A p \in Procs :
        (http[p].route = "follow" /\ http[p].target = http[p].caller)
            => (http[p].pc = "done" /\ http[p].status = 400)

\* The step that takes a request whose target is its caller leaves the
\* follows table as it was.
SelfRequestLeavesFollows ==
    \A p \in Procs :
        (/\ http'[p] # http[p]
         /\ http'[p].route = "follow"
         /\ http'[p].target = http'[p].caller)
            => follows' = follows

\* C13: after any sequence of requests to the follow endpoint by any
\* authenticated users, no follow edge (U,U) exists; a request whose target
\* equals the caller is answered with a client error and leaves the follows
\* table unchanged.
C13_NoSelfFollowThroughEndpoint ==
    /\ []NoSelfFollow
    /\ []SelfFollowRejected
    /\ [][SelfRequestLeavesFollows]_vars

\* A user asked to follow themselves, was refused, and follows another
\* user through the same endpoint.
C13_Witness ==
    \E p \in Procs :
        /\ http[p].route = "follow" /\ http[p].target = http[p].caller
        /\ http[p].status = 400
        /\ \E f \in follows : f[1] = http[p].caller

PostIdsOf(rows) == {rows[i].id : i \in DOMAIN rows}

\* C14: in every reachable state and for every user A, a post authored by a
\* user whom A follows, or by A, is never in getExplorePosts(A) and is in
\* getFeedPosts(A) whenever at most 50 posts qualify for A's feed; hence no
\* post is returned by both.
C14_FeedAndExploreDisjoint ==
    \A a \in Users : \A tie \in TieOrders : \A explore \in getExplorePosts(a) :
        /\ \A p \in DOMAIN posts :
                posts[p].user_id \in (Followees(a) \cup {a}) \cap UserIds =>
                    /\ p \notin PostIdsOf(explore)
                    /\ Cardinality(FeedRows(a)) <= 50
                            => p \in PostIdsOf(getFeedPosts(a, tie))
        /\ PostIdsOf(getFeedPosts(a, tie)) \cap PostIdsOf(explore) = {}

\* A follows B and has read the feed: it holds a post of B and a post of A,
\* while B, who follows nobody, finds A's post on the explore page.
C14_Witness ==
    /\ resp.op = "getFeedPosts"
    /\ \E i \in DOMAIN resp.rows : \E j \in DOMAIN resp.rows :
            /\ resp.rows[i].userId = resp.user
            /\ resp.rows[j].userId # resp.user
            /\ isFollowing(resp.user, resp.rows[j].userId)
            /\ \E explore \in getExplorePosts(resp.rows[j].userId) :
                    resp.rows[i].id \in PostIdsOf(explore)

\* The posts that qualify for the feed of a user: his own and those of the
\* users he follows.
Qualifying(u) ==
    {p \in DOMAIN posts : posts[p].user_id = u \/ isFollowing(u, posts[p].user_id)}

\* C15: the result of getFeedPosts(U) holds at most 50 posts, each authored
\* by U or by a user U follows, in non-increasing created_at; when more than
\* 50 posts qualify, it holds 50 of them and no post left out is newer than
\* a post returned.
C15_FeedPage ==
    resp.op = "getFeedPosts" =>
        LET rows == resp.rows
            qualifying == Qualifying(resp.user)
            returned == PostIdsOf(resp.rows)
            oldest == IF rows = <<>> THEN 0 ELSE rows[Len(rows)].createdAt
        IN /\ Len(rows) <= 50
           /\ returned \subseteq qualifying
           /\ \A i \in DOMAIN rows :
                    /\ rows[i].userId = posts[rows[i].id].user_id
                    /\ rows[i].createdAt = posts[rows[i].id].created_at
           /\ \A i \in 1..(Len(rows) - 1) :
                    rows[i].createdAt >= rows[i + 1].createdAt
           /\ Cardinality(qualifying) > 50 =>
                    /\ Cardinality(returned) = 50
                    /\ \A p \in qualifying \ returned :
                            posts[p].created_at <= oldest

\* A feed read while more than 50 posts qualified: the page holds posts of
\* two times and of a followed user, and an older post was left out.
C15_Witness ==
    /\ resp.op = "getFeedPosts"
    /\ Cardinality(Qualifying(resp.user)) > 50
    /\ Len(resp.rows) = 50
    /\ resp.rows[1].createdAt > resp.rows[50].createdAt
    /\ \E i \in DOMAIN resp.rows : resp.rows[i].userId # resp.user
    /\ \E p \in Qualifying(resp.user) \ PostIdsOf(resp.rows) :
            posts[p].created_at < resp.rows[1].createdAt

EnrichedViews ==
    {"getFeedPosts", "getExplorePosts", "getUserPosts", "getBookmarkedPosts"}

\* C16: in every result of getFeedPosts, getExplorePosts, getUserPosts and
\* getBookmarkedPosts, the likes of each post are a list without duplicates
\* of exactly the ids of the users V for whom isPostLiked(P, V) holds, and
\* the empty list for a post nobody likes.
C16_LikesOfEnrichedViews ==
    resp.op \in EnrichedViews =>
        \A i \in DOMAIN resp.rows :
            LET row == resp.rows[i]
                likers == {v \in Users : isPostLiked(row.id, v)}
            IN /\ Len(row.likes) = Cardinality(likers)
               /\ {row.likes[k] : k \in DOMAIN row.likes}
                        = {IdChars(v) : v \in likers}
               /\ likers = {} => row.likes = <<>>

\* A view has returned a post two users like next to a post nobody likes.
C16_Witness ==
    /\ resp.op \in EnrichedViews
    /\ \E i \in DOMAIN resp.rows : Len(resp.rows[i].likes) = 2
    /\ \E i \in DOMAIN resp.rows : resp.rows[i].likes = <<>>

\* C17: the result of getBookmarkedPosts(A) holds exactly the posts P for
\* which isPostBookmarked(P, A) holds, each once, the post bookmarked later
\* before the post bookmarked earlier; so it is empty once every bookmark
\* of A has been taken back by unbookmarkPost.
C17_BookmarkedPostsExact ==
    resp.op = "getBookmarkedPosts" =>
        LET rows == resp.rows
            At(i) == (CHOOSE b \in BookmarkRows(rows[i].id, resp.user) : TRUE)[3]
        IN /\ PostIdsOf(rows) = {p \in PostIds : isPostBookmarked(p, resp.user)}
           /\ Cardinality(PostIdsOf(rows)) = Len(rows)
           /\ \A i \in 1..(Len(rows) - 1) : At(i) >= At(i + 1)

UserConversationsAsClaimed(u, rows) ==
    LET Conv(i) == CHOOSE r \in rows[i] : TRUE
        Key(i) == Coalesce(conversations[Conv(i).id].last_message_at,
                           conversations[Conv(i).id].created_at)
        MessagesOf(c) == {m \in messages : m.conversation_id = c}
    IN /\ \A i \in DOMAIN rows : rows[i] # Null
       /\ {Conv(i).id : i \in DOMAIN rows}
                = {c \in DOMAIN conversations : <<c, u>> \in participants}
       /\ \A i \in DOMAIN rows : \A j \in DOMAIN rows :
                Conv(i).id = Conv(j).id => i = j
       /\ \A i \in 1..(Len(rows) - 1) : Key(i) >= Key(i + 1)
       /\ \A i \in DOMAIN rows :
            LET r == Conv(i) IN
            /\ Len(r.participants) = Cardinality(ParticipantsOf(r.id))
            /\ {r.participants[k] : k \in DOMAIN r.participants}
                    = ParticipantsOf(r.id)
            /\ MessagesOf(r.id) = {} => r.lastMessage = Null
            /\ MessagesOf(r.id) # {} =>
                    \E m \in MessagesOf(r.id) :
                        /\ r.lastMessage =
                                {[id |-> m.id,
                                  conversationId |-> m.conversation_id,
                                  senderId |-> m.sender_id,
                                  createdAt |-> m.created_at]}
                        /\ \A k \in MessagesOf(r.id) :
                                k.created_at <= m.created_at

UsersUnique ==
    \A a \in users : \A b \in users :
        (a.email = b.email \/ a.username = b.username) => a = b

\* A createUser whose email or username a row already holds leaves users
\* as it was and fails with a constraint violation, called by itself or by
\* the signup handler.
DuplicateCreateUserFails ==
    /\ \A email \in EmailInputs, username \in UsernameInputs :
            (/\ CreateUserCall(email, username)
             /\ \E u \in users : u.email = email \/ u.username = username)
                => users' = users /\ ~resp'.ok
    /\ \A p \in Procs :
            (/\ SignupCreate(p)
             /\ \E u \in users : u.email = http[p].email
                                    \/ u.username = http[p].username)
                => /\ users' = users
                   /\ http'[p].status = 500
                   /\ http'[p].err = "SQLITE_CONSTRAINT"

\* C20: createUser with the email or the username of an existing row fails
\* with a constraint violation and leaves users unchanged, and in every
\* state reached by interleaved signups and profile updates no two rows
\* of users share an email or a username.
C20_UsersUnique == []UsersUnique /\ [][DuplicateCreateUserFails]_vars

\* A signup that passed both look-ups has lost the race for its username
\* to a profile update: its createUser failed on the constraint, and the
\* row that holds the username is the updated one.
C20_Witness ==
    \E p \in Procs :
        /\ http[p].route = "signup"
        /\ http[p].status = 500
        /\ http[p].err = "SQLITE_CONSTRAINT"
        /\ \E u \in users : u.id \in Users /\ u.username = http[p].username
                                             /\ u.username = "c"

\* C21: whenever no call is in flight, every conversation of type 'direct'
\* has exactly 2 participant rows, whatever the arguments of
\* getOrCreateDirectConversation and the addParticipant calls after it.
C21_DirectHasTwoParticipants ==
    (\A p \in Procs : req[p].op = "idle") =>
        \A c \in DOMAIN conversations :
            conversations[c].type = "direct" =>
                Cardinality(ParticipantsOf(c)) = 2

\* C22: every call of an enriched view that is in flight settles, and it
\* settles with the failure when one of its store commands failed, the
\* getPostComments queries of its rows included.
C22_ViewCallsSettle ==
    \A p \in Procs :
        /\ (http[p].route \in ViewNames /\ http[p].pc \in {"query", "comments"})
                ~> (http[p].pc = "done")
        /\ (http[p].route \in ViewNames /\ http[p].flag)
                ~> (http[p].pc = "done" /\ http[p].status = 500)

PasswordFree(rows) == \A i \in DOMAIN rows : "password" \notin DOMAIN rows[i]

ProjectedReads ==
    {"getUserById", "searchUsers", "updateUserProfile", "getFollowers",
     "getFollowing", "getConversationParticipants"}

WholeRowReads == {"getUserByEmail", "getUserByUsername"}

\* C23 as stated: no value a read of users resolves with holds the password
\* column, getUserByEmail and getUserByUsername included.
C23_NoReadReturnsPassword ==
    resp.op \in ProjectedReads \cup WholeRowReads => PasswordFree(resp.rows)

\* C23: the values getUserById, searchUsers, updateUserProfile, getFollowers,
\* getFollowing and getConversationParticipants resolve with hold no
\* password column; the row getUserByEmail and getUserByUsername resolve
\* with is the whole row of users, password included.
C23_ProjectedReadsOmitPassword ==
    /\ resp.op \in ProjectedReads => PasswordFree(resp.rows)
    /\ resp.op \in WholeRowReads =>
            \A i \in DOMAIN resp.rows : resp.rows[i] \in users

C23_Witness ==
    /\ resp.op = "getUserById"
    /\ resp.rows # <<>>
    /\ \E u \in users : u.id = resp.rows[1].id /\ "password" \in DOMAIN u

IdsOf(rows) == {rows[i].id : i \in DOMAIN rows}

\* C24: getFollowers(X) holds exactly the U with isFollowing(U, X) and
\* getFollowing(X) exactly the U with isFollowing(X, U), each once, and
\* getUserStats(X) holds the sizes of these two sets and the number of posts
\* X wrote.
C24_FollowListsAndStats ==
    /\ resp.op = "getFollowers" =>
            /\ IdsOf(resp.rows) = {u \in UserIds : isFollowing(u, resp.user)}
            /\ Len(resp.rows) = Cardinality(IdsOf(resp.rows))
    /\ resp.op = "getFollowing" =>
            /\ IdsOf(resp.rows) = {u \in UserIds : isFollowing(resp.user, u)}
            /\ Len(resp.rows) = Cardinality(IdsOf(resp.rows))
    /\ resp.op = "getUserStats" =>
            \A tie \in TieOrders :
                /\ resp.rows[1].followers = Len(getFollowers(resp.user, tie))
                /\ resp.rows[1].following = Len(getFollowing(resp.user, tie))
                /\ resp.rows[1].posts =
                        Cardinality({p \in DOMAIN posts : posts[p].user_id = resp.user})

\* rollback() has thrown out of the backward change of 002 or 003: one of
\* the statements of down() failed.
DropColumnFailed ==
    /\ mig.cmd = "rollback"
    /\ mig.name \in {"002", "003"}
    /\ mig.pc = "failed"
    /\ mig.log # <<>> /\ mig.log[Len(mig.log)].res = "failed"

\* C25: when a statement of the backward change of 002 or 003 fails, the
\* schema is the one before the change once its ROLLBACK has run, and at
\* the latest when the command has exited; rollback() throws and the
\* ledger keeps the entry.
C25_FailedDropColumnRestores ==
    /\ [](DropColumnFailed =>
            /\ ledger = mig.led0
            /\ tx = Null => schema = mig.sch0)
    /\ [][DropColumnFailed /\ mig' = NoMig =>
            schema' = mig.sch0 /\ ledger' = mig.led0 /\ tx' = Null]_vars

\* The RENAME of the backward change failed after DROP TABLE had run.
C25_Witness ==
    /\ DropColumnFailed
    /\ mig.stmt = 5
    /\ tx = Null
    /\ schema = mig.sch0
    /\ mig.name \in Range(ledger)

Marked(res) == {i \in DOMAIN mig.log : mig.log[i].res = res}

StatusReported == mig.cmd = "status" /\ mig.pc = "done"

StatusMarksAndTotals ==
    /\ [i \in DOMAIN mig.log |-> mig.log[i].name] = getMigrationFiles
    /\ \A i \in DOMAIN mig.log :
            /\ mig.log[i].res = "applied" <=> mig.log[i].name \in Range(ledger)
            /\ mig.log[i].res = "pending" <=> mig.log[i].name \notin Range(ledger)
    /\ mig.report = <<Cardinality(Range(dir)), Cardinality(Marked("applied")),
                      Cardinality(Marked("pending"))>>

C27_ChildRowsReference ==
    /\ \A r \in likes : r[1] \in DOMAIN posts /\ r[2] \in UserIds
    /\ \A r \in comments : r.post_id \in DOMAIN posts /\ r.user_id \in UserIds
    /\ \A r \in bookmarks : r[2] \in DOMAIN posts /\ r[1] \in UserIds
    /\ (resp.op \in {"likePost", "addComment", "bookmarkPost"}
            /\ resp.post \notin DOMAIN posts) => ~resp.ok

MessageTimes(c) == {m.created_at : m \in {x \in messages : x.conversation_id = c}}

\* C28: whenever no createMessage is in flight, the last_message_at of a
\* conversation is null exactly when it has no message and is otherwise
\* the greatest created_at of its messages.
C28_LastMessageAtIsNewest ==
    (\A p \in Procs : req[p].op = "idle") =>
        \A c \in DOMAIN conversations :
            /\ conversations[c].last_message_at = Null <=> MessageTimes(c) = {}
            /\ \A t \in conversations[c].last_message_at :
                    /\ t \in MessageTimes(c)
                    /\ \A u \in MessageTimes(c) : u <= t

\* The like toggle requests of userId on postId that were answered, and the
\* like state before the first request.
TogglesDone(postId, userId) ==
    {p \in Procs : /\ http[p].route = "like" /\ http[p].pc = "done"
                   /\ http[p].post = postId /\ http[p].caller = userId}

LikedAtFirst(postId, userId) ==
    resp.op = "likePost" /\ resp.post = postId /\ resp.user = userId

\* C29: once the like toggle requests are answered, the like of a user on a
\* post exists exactly when it existed at first and the number of the
\* user's toggles on the post is even, or did not and the number is odd;
\* and the liked value of a response is the like state its write left.
C29_TogglesFlipOnce ==
    /\ []((\A p \in Procs : SlotFree(p)) =>
            \A postId \in DOMAIN posts, userId \in Users :
                isPostLiked(postId, userId) <=>
                    (LikedAtFirst(postId, userId) <=>
                        Cardinality(TogglesDone(postId, userId)) % 2 = 0))
    /\ [][\A p \in Procs :
            (http[p].route = "like" /\ http[p].pc = "toggle"
                    /\ http'[p].pc = "done") =>
                (~http[p].flag <=>
                    \E l \in likes' : l[1] = http[p].post /\ l[2] = http[p].caller)]_vars

\* The step that answers request p with `status`.
Answered(p, status) ==
    /\ http[p].route = "delete" /\ http[p].pc # "done"
    /\ http'[p].pc = "done" /\ http'[p].status = status

\* C30: a post leaves the store only in a step of a delete request of its
\* author; the step that answers 403 has found a post of another user and
\* leaves posts, likes, comments and image files as they are; the step that
\* answers 404 has found no post and changes nothing but the request.
C30_OnlyAuthorDeletes ==
    [][/\ \A id \in DOMAIN posts :
            id \notin DOMAIN posts' =>
                \E p \in Procs :
                    /\ http[p].route = "delete" /\ http[p].pc = "deletePost"
                    /\ http[p].post = id
                    /\ http[p].caller = posts[id].user_id
       /\ \A p \in Procs :
            /\ Answered(p, 403) =>
                    /\ http[p].post \in DOMAIN posts
                    /\ posts[http[p].post].user_id # http[p].caller
                    /\ UNCHANGED <<posts, likes, comments, bookmarks, uploads>>
            /\ Answered(p, 404) =>
                    /\ http[p].post \notin DOMAIN posts
                    /\ UNCHANGED <<postVars, users, uploads>>
            /\ (http[p].route = "delete" /\ http[p].pc = "getPost"
                    /\ http'[p].pc = "deletePost") =>
                    posts[http[p].post].user_id = http[p].caller]_vars

\* A request of another user was answered 403 for a post with an image
\* file and a like.
C30_Witness ==
    \E p \in Procs :
        /\ http[p].route = "delete" /\ http[p].pc = "done"
        /\ http[p].status = 403
        /\ http[p].post \in DOMAIN posts
        /\ http[p].post \in uploads
        /\ posts[http[p].post].image_url # Null
        /\ \E l \in likes : l[1] = http[p].post

====
